---- MODULE Spec2Model ----
(***************************************************************************)
(* Conversation orchestration engine of the Enterprise AI Assistant:       *)
(* ChatbotAgent.chat_stream driving the LangGraph workflow                 *)
(* START -> remember -> chat_node -> (tools -> chat_node)* -> END,         *)
(* the memory extraction node, the tool layer, the ambient user context    *)
(* and the thread history read back from the checkpoint.                   *)
(*                                                                         *)
(* A "task" is one asyncio task (one request, or one caller that runs      *)
(* turns one after the other); every task has its own contextvars context. *)
(* The graph is pulled synchronously on the event loop: a node runs        *)
(* between two pulls, the raw (message, metadata) items it streams are     *)
(* handed to chat_stream one at a time, and other tasks run at the         *)
(* `await asyncio.sleep(0)` and at every `yield`.                          *)
(*                                                                         *)
(* The chat model, the extractor backend, the fact store and the tools'    *)
(* backends are the environment: what they return or whether they fail is  *)
(* chosen from the sets of an environment record.  The specifications      *)
(* explore the same actions under different environments: Spec (one        *)
(* caller, every model output and tool outcome), SpecTools (one caller     *)
(* whose model requests tools, with and without the web search wrapper,    *)
(* the calculator on expressions that raise each kind of exception),       *)
(* SpecMemory (every extraction decision and store failure),               *)
(* SpecConcurrent and SpecStream (several tasks), SpecBlocking (several    *)
(* tasks, graph steps that take long) and SpecRag (one caller who uploads  *)
(* a document and asks about documents while it is ingested).              *)
(*                                                                         *)
(* The other layers have their own actions: SpecLifecycle (the agent       *)
(* singleton of chatbot.py and main.py), SpecDocs, SpecStatus and          *)
(* SpecIngest (the upload handler of routers/documents.py and the          *)
(* background ingestion of rag/pdf_processor.py, step by step, under       *)
(* different faults), SpecSearch (uploads and search_my_documents) and     *)
(* SpecRouter (the endpoints of routers/chat.py around the turns of the    *)
(* agent).                                                                 *)
(***************************************************************************)
EXTENDS Integers, Sequences, FiniteSets, TLC

\* ---------------------------------------------------------------- bounds
\* asyncio tasks running turns at the same time
NumTasks == 2
\* turns one caller runs one after the other
MaxTurns == 2
\* turns of the caller that meets every model output and tool outcome
MaxChatTurns == 1
\* tools steps executed in one behaviour
MaxToolSteps == 2
\* largest user id and thread id the checkpoint keys are compared for
MaxId == 12
\* documents uploaded while a caller asks about documents
MaxIngests == 1
\* calls of get_chatbot_agent and cleanup_chatbot_agent in one process
MaxCalls == 4
\* documents uploaded in one behaviour
MaxUploads == 2

\* ------------------------------------------------------------ value sets
Tasks == 1..NumTasks
Users == {1, 2}
Threads == {1}
\* Python None of ContextVar('user_id', default=None); user ids are >= 1
None == 0
\* the message of the n-th turn of a behaviour: every turn has its own text
Input(n) == <<"q", ToString(n)>>
Tools == {"calculator", "search_my_documents", "google_web_search", "web_scrape"}

\* Outputs of the chat model: streamed text fragments and requested tools
ModelOutputs ==
    { [text |-> << <<"a">> >>, tool_calls |-> <<>>],
      [text |-> << <<"a">>, <<"b">> >>, tool_calls |-> <<>>],
      [text |-> <<>>, tool_calls |-> <<"calculator">>],
      [text |-> <<>>, tool_calls |-> <<"search_my_documents">>],
      [text |-> <<>>, tool_calls |-> <<"google_web_search">>],
      [text |-> << <<"t">> >>, tool_calls |-> <<"web_scrape">>],
      [text |-> <<>>, tool_calls |-> <<"calculator", "search_my_documents">>] }

\* What happens inside one tool invocation
Outcomes == {"ok", "fault", "empty", "no_content", "not_configured",
             "load_fails", "reload_fails"}
ToolOutcomes(tool) ==
    CASE tool = "calculator" -> {"ok", "fault"}
      [] tool = "search_my_documents" ->
            {"ok", "empty", "fault", "load_fails", "reload_fails"}
      [] tool = "google_web_search" -> {"ok", "empty", "fault", "not_configured"}
      [] tool = "web_scrape" -> {"ok", "no_content", "fault"}

\* MemoryDecision values returned by the extractor chain
MemoryItem(text, is_new) == [text |-> text, is_new |-> is_new]
MemoryDecision(should_write, memories) ==
    [should_write |-> should_write, memories |-> memories]
Decisions ==
    { MemoryDecision(FALSE, <<>>),
      MemoryDecision(TRUE, <<>>),
      MemoryDecision(TRUE, <<MemoryItem("f1", FALSE), MemoryItem("f2", TRUE)>>),
      MemoryDecision(TRUE, <<MemoryItem("f1", TRUE), MemoryItem("f2", TRUE)>>),
      MemoryDecision(FALSE, <<MemoryItem("f1", TRUE)>>) }

VARIABLES
    pc,                 \* task -> position of its turn
    turn,               \* task -> [user, thread, message, base] of its turn
    ctx,                \* task -> value of _user_id_context in its context
    msgs,               \* task -> messages channel of the running graph
    pending,            \* task -> raw stream items not yet handled
    resuming,           \* task -> chunks its loop iteration yields when resumed
    chunks,             \* task -> typed chunks yielded in this turn
    events,             \* task -> server-sent events of the turn's response
    checkpoint,         \* checkpoint key -> saved messages
    store,              \* namespace -> facts put under it, oldest first
    memoryReads,        \* task -> namespaces searched by the nodes of this turn
    generation_started, \* hasattr(agent, '_generation_started')
    busy,               \* task whose graph pull occupies the event loop, or None
    index,              \* index directory -> the vector store saved there
    turns,              \* turns started so far
    toolSteps,          \* tools steps executed so far
    nodes,              \* task -> graph nodes executed in this turn
    memory,             \* task -> result of the remember_node that just ran
    faults,             \* task -> which calls of the tools step that just ran faulted
    ragReads,           \* task -> user ids read by search_my_documents in this turn
    log,                \* checkpoint key -> <<input, answer>> of completed turns
    aborted,            \* checkpoint key -> a turn on it failed or was cancelled
    overlapped,         \* checkpoint key -> two turns on it ran at the same time
    chatbot_agent,      \* the module global _chatbot_agent: None or the agent
    created,            \* ChatbotAgent objects constructed so far
    connections,        \* connection events of the DatabaseResources, oldest first
    agentCalls,         \* get_chatbot_agent / cleanup_chatbot_agent calls and results
    google_search,      \* the module global google_search of tools.py: None or the wrapper
    documents,          \* the documents table: row of id i at position i
    jobs,               \* the uploads that passed the checks, with their background tasks
    tmpfiles,           \* paths of the temporary files that exist
    found,              \* what the last direct search_my_documents call returned
    threads,            \* the threads table: row of id i at position i
    http,               \* task -> the answer to its last /api/chat/stream request
    fetched             \* the answer to the last GET /api/chat/threads/{thread_id}

chatVars == <<pc, turn, ctx, msgs, pending, resuming, chunks, events, checkpoint, store,
              memoryReads, generation_started, busy, turns, toolSteps, nodes,
              memory, faults, ragReads, log, aborted, overlapped>>

\* what the modules hold apart from the turns
agentVars == <<chatbot_agent, created, connections, agentCalls, google_search>>
docVars == <<documents, jobs, tmpfiles, found>>
routerVars == <<threads, http, fetched>>

vars == <<pc, turn, ctx, msgs, pending, resuming, chunks, events, checkpoint, store,
          memoryReads,
          generation_started, busy, index, turns, toolSteps, nodes, memory, faults,
          ragReads, log, aborted, overlapped, agentVars, docVars, routerVars>>

\* --------------------------------------------------------------- helpers
RECURSIVE Concat(_)
Concat(ss) == IF ss = <<>> THEN <<>> ELSE Head(ss) \o Concat(Tail(ss))

Last(s) == s[Len(s)]

\* ------------------------------------------------ messages and stream items
HumanMessage(content) ==
    [type |-> "human", content |-> content, name |-> "", tool_calls |-> <<>>]
AIMessage(out) ==
    [type |-> "ai", content |-> Concat(out.text), name |-> "",
     tool_calls |-> out.tool_calls]
ToolMessage(name, content) ==
    [type |-> "tool", content |-> content, name |-> name, tool_calls |-> <<>>]

\* one (msg, metadata) item of graph.stream(stream_mode="messages")
RawChunk(node, name, content) ==
    [node |-> node, name |-> name, content |-> content]

\* typed chunks yielded by chat_stream
StatusChunk(step, status) ==
    [type |-> "status", step |-> step, status |-> status, tool |-> "", data |-> <<>>]
ContentChunk(data) ==
    [type |-> "content", step |-> "", status |-> "", tool |-> "", data |-> data]
ToolStartChunk(tool) ==
    [type |-> "tool_start", step |-> "", status |-> "", tool |-> tool, data |-> <<>>]
ToolCompleteChunk(tool) ==
    [type |-> "tool_complete", step |-> "", status |-> "", tool |-> tool, data |-> <<>>]
ErrorChunk ==
    [type |-> "error", step |-> "", status |-> "", tool |-> "", data |-> <<>>]

\* ------------------------------------------------------- user_context.py
get_current_user_id(c, t) == c[t]

\* the binding kept in one process-wide variable instead of a ContextVar
set_process_wide_user_id(c, t, user_id) == [x \in DOMAIN c |-> user_id]

set_current_user_id(c, t, user_id) == [c EXCEPT ![t] = user_id]

\* ------------------------------------------------------------- chatbot.py
\* str(n) of a positive int, one element per decimal digit
RECURSIVE Digits(_)
Digits(n) ==
    IF n < 10 THEN <<ToString(n)>> ELSE Digits(n \div 10) \o <<ToString(n % 10)>>

\* a key built from the thread id alone
CheckpointKeyThreadOnly(user_id, thread_id) == <<"thread_">> \o Digits(thread_id)

\* thread_id of the config built by chat_stream:
\* f"user_{user_id}_thread_{thread_id}"
CheckpointKey(user_id, thread_id) ==
    <<"user_">> \o Digits(user_id) \o <<"_thread_">> \o Digits(thread_id)

\* thread_id of the config built by get_thread_history
HistoryKey(user_id, thread_id) ==
    <<"user_">> \o Digits(user_id) \o <<"_thread_">> \o Digits(thread_id)

Keys == {CheckpointKey(u, th) : u \in Users, th \in Threads}

\* ------------------------------------------------------- graph/builder.py
\* a routing function that never selects the tools node
tools_condition_never(msg) == "END"

tools_condition(msg) == IF msg.tool_calls # <<>> THEN "tools" ELSE "END"

\* the graph with the edge out of tools leading back to remember
SuccessorToolsToRemember(node, msg) ==
    CASE node = "START" -> "remember"
      [] node = "remember" -> "chat_node"
      [] node = "chat_node" -> tools_condition(msg)
      [] node = "tools" -> "remember"

Successor(node, msg) ==
    CASE node = "START" -> "remember"
      [] node = "remember" -> "chat_node"
      [] node = "chat_node" -> tools_condition(msg)
      [] node = "tools" -> "chat_node"

\* ------------------------------------------------------ rag/pdf_processor.py
\* user_db_path: os.path.join(persist_directory, f"user_{user_id}")
\* one directory for the stores of all users
IndexPathShared(user_id) == <<"faiss_db">>

IndexPath(user_id) == <<"user_">> \o Digits(user_id)
IndexPaths == {IndexPath(u) : u \in Users}
\* no directory at the path / the store saved in the directory
NoIndex == [exists |-> FALSE, chunks |-> <<>>]
SavedIndex(entries) == [exists |-> TRUE, chunks |-> entries]
\* what PyPDFLoader and the text splitter make of an uploaded file: its
\* chunks in page order, each with the loader's page number (counted from
\* 0), its text (a name for the characters and how many they are) and the
\* position its embedding has
PdfChunk(page, body, len, vec) == [page |-> page, body |-> body, len |-> len, vec |-> vec]
PdfA == << PdfChunk(0, "a0", 401, 1), PdfChunk(1, "a1", 400, 4), PdfChunk(2, "a2", 12, 7) >>
PdfB == << PdfChunk(0, "b0", 900, 2), PdfChunk(1, "b1", 5, 9) >>
PdfD == << PdfChunk(0, "d0", 10, 1) >>
NoPages == <<>>

\* the path of the temporary file of an upload, and os.path.basename
TempPath(n) == <<"/tmp", "tmp" \o ToString(n) \o ".pdf">>
basename(path) == path[Len(path)]

\* process_pdf, steps 2 and 3: the chunks of one ingested document
DocChunks(pdf_path, user_id, doc_id, pages) ==
    [i \in 1..Len(pages) |->
        [user_id |-> user_id, doc_id |-> doc_id, source |-> basename(pdf_path),
         page |-> pages[i].page, body |-> pages[i].body, len |-> pages[i].len,
         vec |-> pages[i].vec]]

\* Optional[FAISS]: None when the directory does not exist, and when
\* FAISS.load_local raises on the directory that does
NoVectorStore == [loaded |-> FALSE, chunks |-> <<>>]
get_vectorstore(user_id, loadRaises) ==
    IF ~(IndexPath(user_id) \in DOMAIN index /\ index[IndexPath(user_id)].exists)
    THEN NoVectorStore
    ELSE IF loadRaises THEN NoVectorStore
    ELSE [loaded |-> TRUE, chunks |-> index[IndexPath(user_id)].chunks]

\* the first k chunks of s
FirstK(s, k) == SubSeq(s, 1, IF Len(s) < k THEN Len(s) ELSE k)

\* the L2 distance FAISS reports as the score: smaller is more similar
Score(chunk, query) == (chunk.vec - query) * (chunk.vec - query)

\* s with x put behind the last element that is not farther than x
RECURSIVE InsertByScore(_, _, _)
InsertByScore(s, x, query) ==
    IF s = <<>> THEN <<x>>
    ELSE IF Score(Head(s), query) <= Score(x, query)
         THEN <<Head(s)>> \o InsertByScore(Tail(s), x, query)
         ELSE <<x>> \o s
RECURSIVE SortByScore(_, _)
SortByScore(s, query) ==
    IF s = <<>> THEN <<>>
    ELSE InsertByScore(SortByScore(SubSeq(s, 1, Len(s) - 1), query), s[Len(s)], query)

\* the k nearest chunks, nearest first
similarity_search_with_score(entries, query, k) == FirstK(SortByScore(entries, query), k)

\* query_documents: [] without a store and when the search raises
query_documents(user_id, query, loadRaises, searchRaises, k) ==
    LET vectorstore == get_vectorstore(user_id, loadRaises)
    IN IF ~vectorstore.loaded THEN <<>>
       ELSE IF searchRaises THEN <<>>
       ELSE LET results == similarity_search_with_score(vectorstore.chunks, query, k)
            IN [i \in 1..Len(results) |->
                  [content |-> [body |-> results[i].body, len |-> results[i].len],
                   metadata |-> [user_id |-> results[i].user_id,
                                 doc_id |-> results[i].doc_id,
                                 source |-> results[i].source,
                                 page |-> results[i].page],
                   score |-> Score(results[i], query)]]

\* process_pdf, step 5 for a store that skips the texts it already holds
process_pdf_add_distinct(user_id, entries) ==
    LET path == IndexPath(user_id)
        held == IF index[path].exists THEN index[path].chunks ELSE <<>>
    IN held \o SelectSeq(entries,
                         LAMBDA c : \A i \in 1..Len(held) : held[i].body # c.body)

\* process_pdf, steps 4 and 5: the store in memory after the user's saved
\* store was loaded, or a new one created, and the chunks were added
process_pdf_add(user_id, entries) ==
    LET path == IndexPath(user_id)
    IN IF index[path].exists THEN index[path].chunks \o entries ELSE entries

\* process_pdf, step 6: save_local writes the store in memory over the
\* directory of the user
save_local(user_id, vectorstore) ==
    [index EXCEPT ![IndexPath(user_id)] = SavedIndex(vectorstore)]


\* ------------------------------------------------------- agents/tools.py
Returned(text) == [raised |-> FALSE, text |-> text]
Raised == [raised |-> TRUE, text |-> <<>>]
GuidanceText == <<"I don't see any uploaded documents in your account yet.",
                  "To use this feature:", "1. Upload a PDF document using the upload button">>
NoMatchText == <<"I couldn't find any relevant information in your documents for this query.">>

\* --- calculator: the expression language it evaluates.  An expression is
\* a tree; identifiers (dotted names included) are kept as sequences of
\* characters, because the replace chain of lines 34-41 rewrites them
\* character by character.
Num(n) == [op |-> "num", v |-> n]
Name(id) == [op |-> "name", id |-> id]
Call(fn, arg) == [op |-> "call", fn |-> fn, arg |-> arg]
BinOp(op, l, r) == [op |-> op, l |-> l, r |-> r]
\* the operand that is not there: of "2 +", of "- 2", of "sqrt()", and the
\* expression of no characters
Missing == [op |-> "missing"]

\* str.replace: every non-overlapping occurrence, left to right
RECURSIVE Replace(_, _, _)
Replace(s, old, new) ==
    IF Len(s) < Len(old) THEN s
    ELSE IF SubSeq(s, 1, Len(old)) = old
         THEN new \o Replace(SubSeq(s, Len(old) + 1, Len(s)), old, new)
         ELSE <<Head(s)>> \o Replace(Tail(s), old, new)

MathDot == <<"m", "a", "t", "h", ".">>

\* the replace chain of lines 34-41, in its order
Substitute(id) ==
    LET s1 == Replace(id, <<"s", "q", "r", "t">>, MathDot \o <<"s", "q", "r", "t">>)
        s2 == Replace(s1, <<"s", "i", "n">>, MathDot \o <<"s", "i", "n">>)
        s3 == Replace(s2, <<"c", "o", "s">>, MathDot \o <<"c", "o", "s">>)
        s4 == Replace(s3, <<"t", "a", "n">>, MathDot \o <<"t", "a", "n">>)
        s5 == Replace(s4, <<"l", "o", "g">>, MathDot \o <<"l", "o", "g", "1", "0">>)
        s6 == Replace(s5, <<"l", "n">>, MathDot \o <<"l", "o", "g">>)
        s7 == Replace(s6, <<"p", "i">>, MathDot \o <<"p", "i">>)
    IN Replace(s7, <<"e">>, MathDot \o <<"e">>)

RECURSIVE Text(_)
Text(s) == IF s = <<>> THEN "" ELSE Head(s) \o Text(Tail(s))

\* the part of a dotted name before its first dot
RECURSIVE FirstName(_)
FirstName(s) ==
    IF s = <<>> \/ Head(s) = "." THEN <<>> ELSE <<Head(s)>> \o FirstName(Tail(s))

\* the reserved words of Python, which the parser takes for no name
Keywords ==
    { <<"F", "a", "l", "s", "e">>, <<"N", "o", "n", "e">>, <<"T", "r", "u", "e">>,
      <<"a", "n", "d">>, <<"a", "s">>, <<"a", "s", "s", "e", "r", "t">>,
      <<"a", "s", "y", "n", "c">>, <<"a", "w", "a", "i", "t">>, <<"b", "r", "e", "a", "k">>,
      <<"c", "l", "a", "s", "s">>, <<"c", "o", "n", "t", "i", "n", "u", "e">>, <<"d", "e", "f">>,
      <<"d", "e", "l">>, <<"e", "l", "i", "f">>, <<"e", "l", "s", "e">>,
      <<"e", "x", "c", "e", "p", "t">>, <<"f", "i", "n", "a", "l", "l", "y">>, <<"f", "o", "r">>,
      <<"f", "r", "o", "m">>, <<"g", "l", "o", "b", "a", "l">>, <<"i", "f">>,
      <<"i", "m", "p", "o", "r", "t">>, <<"i", "n">>, <<"i", "s">>,
      <<"l", "a", "m", "b", "d", "a">>, <<"n", "o", "n", "l", "o", "c", "a", "l">>,
      <<"n", "o", "t">>, <<"o", "r">>, <<"p", "a", "s", "s">>, <<"r", "a", "i", "s", "e">>,
      <<"r", "e", "t", "u", "r", "n">>, <<"t", "r", "y">>, <<"w", "h", "i", "l", "e">>,
      <<"w", "i", "t", "h">>, <<"y", "i", "e", "l", "d">> }

RECURSIVE GCD(_, _)
GCD(a, b) == IF b = 0 THEN a ELSE GCD(b, a % b)
Abs(n) == IF n < 0 THEN -n ELSE n
RECURSIVE IPow(_, _)
IPow(b, n) == IF n = 0 THEN 1 ELSE b * IPow(b, n - 1)

\* Python values of an evaluation.  A number is an int or a float; a float
\* is held as the fraction num/den it stands for, with ulps a bound, in
\* units in the last place, on the distance of the double from the
\* fraction (0: the double is the fraction).  An object is the math module
\* or a built-in function; a constant of math is a float known by its name,
\* its nearest int and its text rounded to 10 places (den is 0).  An
\* evaluation that raised carries the class of the exception in exc and
\* its text, str(e), in err.
Number(type, n, d, ulps) ==
    LET g == GCD(Abs(n), Abs(d))
        sgn == IF d < 0 THEN -1 ELSE 1
    IN [exc |-> "", err |-> "", type |-> type, num |-> sgn * (n \div g),
        den |-> sgn * (d \div g), ulps |-> ulps, name |-> "", repr |-> ""]
Object(type, name, repr) ==
    [exc |-> "", err |-> "", type |-> type, num |-> 0, den |-> 0, ulps |-> 0,
     name |-> name, repr |-> repr]
Fails(exc, message) ==
    [exc |-> exc, err |-> message, type |-> "", num |-> 0, den |-> 1, ulps |-> 0,
     name |-> "", repr |-> ""]
\* a value the model does not compute: a double that fractions and their
\* error bounds do not determine (an irrational result, a result at a
\* rounding boundary, arithmetic on pi or e); evaluating it is an error
Unmodelled(x) == CHOOSE v \in {} : v = x

\* the float of an exact result n/d, the nearest double: it is the fraction
\* when the denominator is a power of two
Float(n, d) ==
    LET RECURSIVE IsPowerOfTwo(_)
        IsPowerOfTwo(k) == k = 1 \/ (k % 2 = 0 /\ IsPowerOfTwo(k \div 2))
    IN Number("float", n, d,
              IF IsPowerOfTwo(Abs(d) \div GCD(Abs(n), Abs(d))) THEN 0 ELSE 1)

\* the keys of safe_dict, and the functions of the math module
safe_dict == {"math", "abs", "round", "min", "max", "__builtins__"}
MathFunctions ==
    {"acos", "acosh", "asin", "asinh", "atan", "atan2", "atanh", "cbrt", "ceil",
     "comb", "copysign", "cos", "cosh", "degrees", "dist", "erf", "erfc", "exp",
     "exp2", "expm1", "fabs", "factorial", "floor", "fmod", "frexp", "fsum", "gamma",
     "gcd", "hypot", "isclose", "isfinite", "isinf", "isnan", "isqrt", "lcm", "ldexp",
     "lgamma", "log", "log10", "log1p", "log2", "modf", "nextafter", "perm", "pow",
     "prod", "radians", "remainder", "sin", "sinh", "sqrt", "tan", "tanh", "trunc",
     "ulp"}
MathConstant(name) ==
    LET nearest == [pi |-> 3, e |-> 3, tau |-> 6]
        repr == [pi |-> "3.1415926536", e |-> "2.7182818285", tau |-> "6.2831853072"]
    IN [exc |-> "", err |-> "", type |-> "float", num |-> nearest[name], den |-> 0,
        ulps |-> 0, name |-> name, repr |-> repr[name]]
BuiltinFunction(name) ==
    Object("builtin_function_or_method", name, "<built-in function " \o name \o ">")
\* the math module; its repr names the file the interpreter loaded it from,
\* which differs between installations and is not a text of the model
MathModule == Object("module", "math", "")
\* the value of the key "__builtins__": the empty dict
EmptyDict == Object("dict", "", "{}")
\* a str; it is shown as it is
Str(text) == Object("str", "", text)

\* dir() of the values a name of the expression can stand for (Python 3.11):
\* the attributes getattr finds
dir(type) ==
    CASE type = "module" ->
           {"__annotations__", "__class__", "__delattr__", "__dict__", "__dir__",
            "__doc__", "__eq__", "__file__", "__format__", "__ge__",
            "__getattribute__", "__getstate__", "__gt__", "__hash__", "__init__",
            "__init_subclass__", "__le__", "__loader__", "__lt__", "__name__",
            "__ne__", "__new__", "__package__", "__reduce__", "__reduce_ex__",
            "__repr__", "__setattr__", "__sizeof__", "__spec__", "__str__",
            "__subclasshook__", "acos", "acosh", "asin", "asinh", "atan", "atan2",
            "atanh", "cbrt", "ceil", "comb", "copysign", "cos", "cosh", "degrees",
            "dist", "e", "erf", "erfc", "exp", "exp2", "expm1", "fabs", "factorial",
            "floor", "fmod", "frexp", "fsum", "gamma", "gcd", "hypot", "inf",
            "isclose", "isfinite", "isinf", "isnan", "isqrt", "lcm", "ldexp",
            "lgamma", "log", "log10", "log1p", "log2", "modf", "nan", "nextafter",
            "perm", "pi", "pow", "prod", "radians", "remainder", "sin", "sinh",
            "sqrt", "tan", "tanh", "tau", "trunc", "ulp"}
      [] type = "builtin_function_or_method" ->
           {"__call__", "__class__", "__delattr__", "__dir__", "__doc__", "__eq__",
            "__format__", "__ge__", "__getattribute__", "__getstate__", "__gt__",
            "__hash__", "__init__", "__init_subclass__", "__le__", "__lt__",
            "__module__", "__name__", "__ne__", "__new__", "__qualname__",
            "__reduce__", "__reduce_ex__", "__repr__", "__self__", "__setattr__",
            "__sizeof__", "__str__", "__subclasshook__", "__text_signature__"}
      [] type = "float" ->
           {"__abs__", "__add__", "__bool__", "__ceil__", "__class__", "__delattr__",
            "__dir__", "__divmod__", "__doc__", "__eq__", "__float__", "__floor__",
            "__floordiv__", "__format__", "__ge__", "__getattribute__",
            "__getformat__", "__getnewargs__", "__getstate__", "__gt__", "__hash__",
            "__init__", "__init_subclass__", "__int__", "__le__", "__lt__", "__mod__",
            "__mul__", "__ne__", "__neg__", "__new__", "__pos__", "__pow__",
            "__radd__", "__rdivmod__", "__reduce__", "__reduce_ex__", "__repr__",
            "__rfloordiv__", "__rmod__", "__rmul__", "__round__", "__rpow__",
            "__rsub__", "__rtruediv__", "__setattr__", "__sizeof__", "__str__",
            "__sub__", "__subclasshook__", "__truediv__", "__trunc__",
            "as_integer_ratio", "conjugate", "fromhex", "hex", "imag", "is_integer",
            "real"}
      [] type = "dict" ->
           {"__class__", "__class_getitem__", "__contains__", "__delattr__",
            "__delitem__", "__dir__", "__doc__", "__eq__", "__format__", "__ge__",
            "__getattribute__", "__getitem__", "__getstate__", "__gt__", "__hash__",
            "__init__", "__init_subclass__", "__ior__", "__iter__", "__le__",
            "__len__", "__lt__", "__ne__", "__new__", "__or__", "__reduce__",
            "__reduce_ex__", "__repr__", "__reversed__", "__ror__", "__setattr__",
            "__setitem__", "__sizeof__", "__str__", "__subclasshook__", "clear",
            "copy", "fromkeys", "get", "items", "keys", "pop", "popitem",
            "setdefault", "update", "values"}
      [] type = "str" ->
           {"__add__", "__class__", "__contains__", "__delattr__", "__dir__",
            "__doc__", "__eq__", "__format__", "__ge__", "__getattribute__",
            "__getitem__", "__getnewargs__", "__getstate__", "__gt__", "__hash__",
            "__init__", "__init_subclass__", "__iter__", "__le__", "__len__",
            "__lt__", "__mod__", "__mul__", "__ne__", "__new__", "__reduce__",
            "__reduce_ex__", "__repr__", "__rmod__", "__rmul__", "__setattr__",
            "__sizeof__", "__str__", "__subclasshook__", "capitalize", "casefold",
            "center", "count", "encode", "endswith", "expandtabs", "find", "format",
            "format_map", "index", "isalnum", "isalpha", "isascii", "isdecimal",
            "isdigit", "isidentifier", "islower", "isnumeric", "isprintable",
            "isspace", "istitle", "isupper", "join", "ljust", "lower", "lstrip",
            "maketrans", "partition", "removeprefix", "removesuffix", "replace",
            "rfind", "rindex", "rjust", "rpartition", "rsplit", "rstrip", "split",
            "splitlines", "startswith", "strip", "swapcase", "title", "translate",
            "upper", "zfill"}

\* the attribute attr of the value v: AttributeError for a name the value
\* does not have; of the attributes it has, the functions and constants of
\* math, the docstrings of math and abs, and imag and real of a float are
\* values of the model
getattr(v, attr) ==
    IF attr \notin dir(v.type)
    THEN Fails("AttributeError",
               IF v.type = "module"
               THEN "module 'math' has no attribute '" \o attr \o "'"
               ELSE "'" \o v.type \o "' object has no attribute '" \o attr \o "'")
    ELSE CASE v.type = "module" /\ attr \in MathFunctions -> BuiltinFunction(attr)
           [] v.type = "module" /\ attr \in {"pi", "e", "tau"} -> MathConstant(attr)
           [] v.type = "module" /\ attr = "__doc__" ->
                Str("This module provides access to the mathematical functions\n"
                    \o "defined by the C standard.")
           [] v.type = "builtin_function_or_method" /\ v.name = "abs"
              /\ attr = "__doc__" ->
                Str("Return the absolute value of the argument.")
           [] v.type = "float" /\ attr = "imag" -> Float(0, 1)
           [] v.type = "float" /\ attr = "real" -> v
           [] OTHER -> Unmodelled(<<v, attr>>)

\* a dotted name of the rewritten expression: the global of its first part,
\* then one attribute after the other; the first exception ends it
Lookup(s) ==
    LET RECURSIVE Attributes(_, _)
        Attributes(v, rest) ==
            IF rest = <<>> \/ v.exc # "" THEN v
            ELSE LET attr == FirstName(rest)
                 IN Attributes(getattr(v, Text(attr)),
                               SubSeq(rest, Len(attr) + 2, Len(rest)))
        first == FirstName(s)
        global == IF Text(first) \in safe_dict
                  THEN CASE Text(first) = "math" -> MathModule
                         [] Text(first) = "__builtins__" -> EmptyDict
                         [] OTHER -> BuiltinFunction(Text(first))
                  ELSE Fails("NameError", "name '" \o Text(first) \o "' is not defined")
    IN Attributes(global, SubSeq(s, Len(first) + 2, Len(s)))

\* the exact root of a square number
ISqrt(n) ==
    LET RECURSIVE Largest(_, _)
        \* the largest r of lo..hi with r * r <= n
        Largest(lo, hi) ==
            IF lo = hi THEN lo
            ELSE LET mid == (lo + hi + 1) \div 2
                 IN IF mid * mid <= n THEN Largest(mid, hi) ELSE Largest(lo, mid - 1)
    IN CHOOSE r \in {Largest(0, IF n < 46340 THEN n ELSE 46340)} : r * r = n

\* the call f(a) of an evaluated function expression and argument.  floor,
\* trunc and round of a float that is not its fraction follow from the
\* fraction only when the fraction is farther from the next int (floor,
\* trunc) or from the middle between two ints (round) than the double is
\* from the fraction; a unit in the last place is at most 2^-52 of the
\* value, and the margin taken here is 2^-30 of it
Apply(f, a) ==
    LET isNumber == a.type \in {"int", "float"}
        isConstant == a.den = 0
        notReal == Fails("TypeError", "must be real number, not " \o a.type)
        floor == a.num \div a.den
        rest == a.num % a.den
        toNextInt == IF 2 * rest < a.den THEN rest ELSE a.den - rest
        toMiddle == Abs(2 * rest - a.den)
        clear(distance) ==
            \/ a.ulps = 0
            \/ distance # 0 /\ (a.ulps * Abs(a.num)) \div distance < 1073741824
        \* round(a) of a float: the nearest int, the even one of two
        nearest == IF 2 * rest < a.den THEN floor
                   ELSE IF 2 * rest > a.den THEN floor + 1
                   ELSE IF floor % 2 = 0 THEN floor ELSE floor + 1
        whole == [pi |-> 3, e |-> 2, tau |-> 6]
    IN IF f.type # "builtin_function_or_method"
       THEN Fails("TypeError", "'" \o f.type \o "' object is not callable")
       ELSE CASE f.name \in {"min", "max"} ->
                   IF a.type = "str" THEN Unmodelled(a)
                   ELSE IF a.type = "dict"
                   THEN Fails("ValueError", f.name \o "() arg is an empty sequence")
                   ELSE Fails("TypeError", "'" \o a.type \o "' object is not iterable")
              [] f.name = "abs" ->
                   IF ~isNumber
                   THEN Fails("TypeError",
                              "bad operand type for abs(): '" \o a.type \o "'")
                   ELSE IF isConstant THEN a
                   ELSE Number(a.type, Abs(a.num), a.den, a.ulps)
              [] f.name = "round" ->
                   IF ~isNumber
                   THEN Fails("TypeError",
                              "type " \o a.type \o " doesn't define __round__ method")
                   ELSE IF isConstant THEN Number("int", a.num, 1, 0)
                   ELSE IF ~clear(toMiddle) THEN Unmodelled(a)
                   ELSE Number("int", nearest, 1, 0)
              [] f.name = "sqrt" ->
                   IF ~isNumber THEN notReal
                   ELSE IF isConstant THEN Unmodelled(a)
                   ELSE IF a.num < 0 THEN Fails("ValueError", "math domain error")
                   ELSE IF a.ulps = 0 THEN Float(ISqrt(a.num), ISqrt(a.den))
                   ELSE Number("float", ISqrt(a.num), ISqrt(a.den), a.ulps + 1)
              [] f.name \in {"sin", "tan"} ->
                   IF ~isNumber THEN notReal
                   ELSE IF ~isConstant /\ a.num = 0 THEN Float(0, 1)
                   ELSE Unmodelled(a)
              [] f.name = "cos" ->
                   IF ~isNumber THEN notReal
                   ELSE IF ~isConstant /\ a.num = 0 THEN Float(1, 1)
                   ELSE Unmodelled(a)
              [] f.name \in {"log10", "log"} ->
                   IF ~isNumber THEN notReal
                   ELSE IF isConstant THEN Unmodelled(a)
                   ELSE IF a.num <= 0 THEN Fails("ValueError", "math domain error")
                   ELSE IF a.num = 1 /\ a.den = 1 /\ a.ulps = 0 THEN Float(0, 1)
                   ELSE Unmodelled(a)
              [] f.name = "exp" ->
                   IF ~isNumber THEN notReal
                   ELSE IF ~isConstant /\ a.num = 0 THEN Float(1, 1)
                   ELSE IF a.num = 1 /\ a.den = 1 /\ a.ulps = 0 THEN MathConstant("e")
                   ELSE Unmodelled(a)
              [] f.name \in {"floor", "trunc"} ->
                   IF ~isNumber
                   THEN IF f.name = "floor" THEN notReal
                        ELSE Fails("TypeError", "type " \o a.type
                                                \o " doesn't define __trunc__ method")
                   ELSE IF isConstant THEN Number("int", whole[a.name], 1, 0)
                   ELSE IF ~clear(toNextInt) THEN Unmodelled(a)
                   ELSE IF f.name = "trunc" /\ a.num < 0
                   THEN Number("int", -((-a.num) \div a.den), 1, 0)
                   ELSE Number("int", floor, 1, 0)
              [] OTHER -> Unmodelled(f)

\* l op r of two evaluated operands: ints give an int, except for / and a
\* negative exponent; a float result is the nearest double of the exact
\* result of doubles that are exact, and carries the sum of the operands'
\* error bounds otherwise
Arith(op, l, r) ==
    LET isFloat == l.type = "float" \/ r.type = "float"
        exact == l.ulps = 0 /\ r.ulps = 0
        result(toFloat, n, d, ulps) ==
            IF ~toFloat THEN Number("int", n, 1, 0)
            ELSE IF exact \/ n = 0 THEN Float(n, d)
            ELSE Number("float", n, d, ulps)
        sum(rnum) ==
            LET n == l.num * r.den + rnum * l.den
            IN IF ~exact /\ n = 0 THEN Unmodelled(<<op, l, r>>)
               ELSE result(isFloat, n, l.den * r.den,
                           IF exact THEN 0
                           ELSE (l.ulps * Abs(l.num) * r.den
                                 + r.ulps * Abs(rnum) * l.den) \div Abs(n) + 2)
    IN IF op = "+" /\ l.type = "str"
       THEN IF r.type = "str" THEN Unmodelled(<<op, l, r>>)
            ELSE Fails("TypeError",
                       "can only concatenate str (not \"" \o r.type \o "\") to str")
       ELSE IF op = "*" /\ "str" \in {l.type, r.type}
       THEN LET other == IF l.type = "str" THEN r ELSE l
            IN IF other.type = "int" THEN Unmodelled(<<op, l, r>>)
               ELSE Fails("TypeError", "can't multiply sequence by non-int of type '"
                                       \o other.type \o "'")
       ELSE IF {l.type, r.type} \ {"int", "float"} # {}
       THEN Fails("TypeError",
                  "unsupported operand type(s) for "
                  \o (IF op = "**" THEN "** or pow()" ELSE op) \o ": '"
                  \o l.type \o "' and '" \o r.type \o "'")
       ELSE IF l.den = 0 \/ r.den = 0 THEN Unmodelled(<<op, l, r>>)
       ELSE CASE op = "+" -> sum(r.num)
              [] op = "-" -> sum(-r.num)
              [] op = "*" -> result(isFloat, l.num * r.num, l.den * r.den,
                                    l.ulps + r.ulps + 1)
              [] op = "/" ->
                   IF r.num = 0
                   THEN Fails("ZeroDivisionError",
                              IF isFloat THEN "float division by zero"
                              ELSE "division by zero")
                   ELSE result(TRUE, l.num * r.den, l.den * r.num,
                               l.ulps + r.ulps + 1)
              [] op = "**" ->
                   IF r.den # 1 \/ r.ulps # 0 THEN Unmodelled(<<op, l, r>>)
                   ELSE IF r.num >= 0
                   THEN result(isFloat, IPow(l.num, r.num), IPow(l.den, r.num),
                               IF r.num = 0 THEN 0 ELSE r.num * l.ulps + 1)
                   ELSE IF l.num = 0
                   THEN Fails("ZeroDivisionError",
                              "0.0 cannot be raised to a negative power")
                   ELSE result(TRUE, IPow(l.den, -r.num), IPow(l.num, -r.num),
                               (-r.num) * l.ulps + 1)

\* eval(expression, safe_dict) on the rewritten expression.  The expression
\* is compiled first: one with an operand missing is a SyntaxError, and of
\* the empty expression the error is in line 0; "+" and "-" without a left
\* operand are the unary operators, and what the parser says of another
\* operator without a left operand depends on the text around it, which the
\* tree does not hold.  A name with a reserved word among its parts is a
\* SyntaxError when it is the whole expression; inside a larger expression
\* the reserved word may be an operator of it ("not + 1" is False), which
\* the tree does not tell.  Then the function expression of a call
\* is evaluated before its argument, the operands of an operator left to
\* right, and the first exception ends the evaluation.
eval(x) ==
    LET RECURSIVE parses(_)
        parses(y) ==
            CASE y.op \in {"num", "name"} -> TRUE
              [] y.op = "missing" -> FALSE
              [] y.op = "call" -> y.arg.op = "missing" \/ parses(y.arg)
              [] OTHER -> /\ (y.l.op = "missing" /\ y.op \in {"+", "-"}) \/ parses(y.l)
                          /\ parses(y.r)
        RECURSIVE starred(_)
        starred(y) ==
            CASE y.op \in {"num", "name", "missing"} -> FALSE
              [] y.op = "call" -> starred(y.arg)
              [] OTHER -> \/ y.l.op = "missing" /\ y.op \notin {"+", "-"}
                          \/ starred(y.l) \/ starred(y.r)
        \* the parts of a dotted name
        RECURSIVE Components(_)
        Components(s) ==
            LET first == FirstName(s)
            IN IF Len(first) = Len(s) THEN <<first>>
               ELSE <<first>> \o Components(SubSeq(s, Len(first) + 2, Len(s)))
        reserved(id) ==
            \E i \in DOMAIN Components(Substitute(id)) :
                Components(Substitute(id))[i] \in Keywords
        RECURSIVE keyword(_)
        keyword(y) ==
            CASE y.op \in {"num", "missing"} -> FALSE
              [] y.op = "name" -> reserved(y.id)
              [] y.op = "call" -> reserved(y.fn) \/ keyword(y.arg)
              [] OTHER -> keyword(y.l) \/ keyword(y.r)
        unary(op, r) ==
            IF r.type \notin {"int", "float"}
            THEN Fails("TypeError",
                       "bad operand type for unary " \o op \o ": '" \o r.type \o "'")
            ELSE IF r.den = 0 THEN Unmodelled(<<op, r>>)
            ELSE Arith(op, Number("int", 0, 1, 0), r)
        RECURSIVE value(_)
        value(y) ==
            CASE y.op = "num" -> Number("int", y.v, 1, 0)
              [] y.op = "name" -> Lookup(Substitute(y.id))
              [] y.op = "call" ->
                   LET f == Lookup(Substitute(y.fn))
                   IN IF f.exc # "" THEN f
                      ELSE IF y.arg.op = "missing" THEN Unmodelled(y)
                      ELSE LET a == value(y.arg)
                           IN IF a.exc # "" THEN a ELSE Apply(f, a)
              [] OTHER ->
                   IF y.l.op = "missing"
                   THEN LET r == value(y.r)
                        IN IF r.exc # "" THEN r ELSE unary(y.op, r)
                   ELSE LET l == value(y.l)
                            r == value(y.r)
                        IN IF l.exc # "" THEN l
                           ELSE IF r.exc # "" THEN r
                           ELSE Arith(y.op, l, r)
    IN IF x.op = "missing"
       THEN Fails("SyntaxError", "invalid syntax (<string>, line 0)")
       ELSE IF starred(x) THEN Unmodelled(x)
       ELSE IF x.op = "name" /\ reserved(x.id)
       THEN Fails("SyntaxError", "invalid syntax (<string>, line 1)")
       ELSE IF keyword(x) THEN Unmodelled(x)
       ELSE IF ~parses(x)
       THEN Fails("SyntaxError", "invalid syntax (<string>, line 1)")
       ELSE value(x)

\* str(round(v, 10)) of a float that is not integral: round takes the
\* decimal nearest to the double, of two the one with an even last digit,
\* and str the shortest text that reads back as the result, in scientific
\* notation below 0.0001.  The text follows from the fraction when the
\* double is the fraction and ends within 10 places, or when the fraction
\* is below 100000 (15 digits tell the result) and farther from the middle
\* between two decimals of 10 places than the double is from the fraction
\* (2^53 / (2 * 10^10) is about 450000), or in that middle while the double
\* is the nearest one of the fraction.
RoundedText(v) ==
    LET \* the first k digits after the point of rem/den, and what remains
        RECURSIVE LongDivision(_, _, _)
        LongDivision(rem, den, k) ==
            IF k = 0 THEN [digits |-> <<>>, rem |-> rem]
            ELSE LET t == LongDivision((10 * rem) % den, den, k - 1)
                 IN [digits |-> <<(10 * rem) \div den>> \o t.digits, rem |-> t.rem]
        \* one more in the last place of a digit string; the first item of
        \* the result is what is carried out of the string
        RECURSIVE Increment(_)
        Increment(ds) ==
            IF ds = <<>> THEN <<1>>
            ELSE LET t == Increment(Tail(ds))
                     d == Head(ds) + t[1]
                 IN <<d \div 10, d % 10>> \o Tail(t)
        RECURSIVE StripZeros(_)
        StripZeros(ds) ==
            IF ds # <<>> /\ ds[Len(ds)] = 0
            THEN StripZeros(SubSeq(ds, 1, Len(ds) - 1)) ELSE ds
        RECURSIVE DigitsText(_)
        DigitsText(ds) ==
            IF ds = <<>> THEN "" ELSE ToString(Head(ds)) \o DigitsText(Tail(ds))
        \* what is left of rem/den after the next `need` binary digits,
        \* counted from the first 1 on: twice it is above den when the
        \* nearest double of a fraction is above the fraction
        RECURSIVE BinaryRest(_, _, _, _)
        BinaryRest(rem, den, need, counting) ==
            IF need = 0 THEN rem
            ELSE IF counting \/ 2 * rem >= den
            THEN BinaryRest((2 * rem) % den, den, need - 1, TRUE)
            ELSE BinaryRest((2 * rem) % den, den, need, FALSE)
        RECURSIVE BitLength(_)
        BitLength(k) == IF k = 0 THEN 0 ELSE 1 + BitLength(k \div 2)
        n == Abs(v.num)
        q == LongDivision(n % v.den, v.den, 10)
        halfway == 2 * q.rem = v.den
        rest == BinaryRest(n % v.den, v.den, 53 - BitLength(n \div v.den),
                           n \div v.den > 0)
        up == \/ 2 * q.rem > v.den
              \/ halfway /\ v.ulps = 0 /\ q.digits[10] % 2 = 1
              \/ halfway /\ v.ulps = 1 /\ 2 * rest > v.den
        r == IF up THEN Increment(q.digits) ELSE <<0>> \o q.digits
        whole == n \div v.den + r[1]
        frac == StripZeros(Tail(r))
        first == CHOOSE i \in 1..Len(frac) : frac[i] # 0 /\ \A j \in 1..(i - 1) : frac[j] = 0
        sign == IF v.num < 0 THEN "-" ELSE ""
        follows == \/ v.ulps = 0 /\ 1024 % v.den = 0
                   \/ /\ n \div v.den < 100000
                      /\ v.ulps = 0
                         \/ (halfway /\ v.ulps = 1 /\ 2 * rest # v.den)
                         \/ (~halfway
                             /\ (v.ulps * n) \div Abs(2 * q.rem - v.den) < 450000)
    IN IF ~follows THEN Unmodelled(v)
       ELSE IF frac = <<>> THEN sign \o ToString(whole) \o ".0"
       ELSE IF whole = 0 /\ first > 4
       THEN sign \o ToString(frac[first])
            \o (IF first < Len(frac)
                THEN "." \o DigitsText(SubSeq(frac, first + 1, Len(frac))) ELSE "")
            \o "e-" \o (IF first < 10 THEN "0" ELSE "") \o ToString(first)
       ELSE sign \o ToString(whole) \o "." \o DigitsText(frac)

\* lines 54-58 with the str() of line 61, without the conversion of lines
\* 55-56: an integral float keeps its ".0"
format_result_raw(v) ==
    IF v.type = "int" THEN ToString(v.num)
    ELSE IF v.type = "module" THEN Unmodelled(v)
    ELSE IF v.type # "float" \/ v.den = 0 THEN v.repr
    ELSE IF v.den = 1 THEN ToString(v.num) \o ".0"
    ELSE RoundedText(v)

\* lines 54-58 with the str() of line 61: an int and an object are shown as
\* they are (the math module by a text of the installation), an integral
\* float as an int, any other float rounded to 10 places
format_result(v) ==
    IF v.type = "int" THEN ToString(v.num)
    ELSE IF v.type = "module" THEN Unmodelled(v)
    ELSE IF v.type # "float" \/ v.den = 0 THEN v.repr
    ELSE IF v.den = 1 THEN (IF v.ulps = 0 THEN ToString(v.num) ELSE Unmodelled(v))
    ELSE RoundedText(v)

\* issubclass for the classes of the exceptions of an evaluation and the
\* classes that are no Exception (Python 3.11)
RECURSIVE issubclass(_, _)
issubclass(class, base) ==
    LET bases == [ZeroDivisionError |-> "ArithmeticError",
                  OverflowError |-> "ArithmeticError",
                  ArithmeticError |-> "Exception", AttributeError |-> "Exception",
                  NameError |-> "Exception", SyntaxError |-> "Exception",
                  TypeError |-> "Exception", ValueError |-> "Exception",
                  Exception |-> "BaseException", KeyboardInterrupt |-> "BaseException",
                  SystemExit |-> "BaseException", GeneratorExit |-> "BaseException",
                  BaseException |-> "object"]
    IN \/ class = base
       \/ class \in DOMAIN bases /\ issubclass(bases[class], base)

\* calculator without its try/except
calculator_unguarded(expression) ==
    LET result == eval(expression)
    IN IF result.exc # "" THEN Raised
       ELSE Returned(<<"Result: ", format_result(result)>>)

\* the try block of lines 32-61 and `except Exception as e` of lines 63-65:
\* an exception of another class leaves the tool
calculator(expression) ==
    LET result == eval(expression)
    IN IF result.exc = "" THEN Returned(<<"Result: ", format_result(result)>>)
       ELSE IF issubclass(result.exc, "Exception")
       THEN Returned(<<"Error: ", result.err>>)
       ELSE Raised

\* the expressions the model is given to evaluate: the two of the
\* docstring and the specification, every operation on two of a few ints,
\* every call of abs, round, min, max, math.floor and math.trunc on one of
\* the ints or on one of the operations, the incomplete expressions, and
\* expressions chosen for the names, the attributes, the other functions and
\* the results whose rounding needs care
SqrtExample == BinOp("+", Call(<<"s", "q", "r", "t">>, Num(16)), BinOp("**", Num(2), Num(3)))
DivisionByZero == BinOp("/", Num(1), Num(0))
Expressions ==
    LET operands == { Num(n) : n \in {-3, 0, 1, 2, 7} }
        operations == { BinOp(op, l, r) : op \in {"+", "-", "*", "/", "**"},
                                          l \in operands, r \in operands }
        floor == <<"m", "a", "t", "h", ".", "f", "l", "o", "o", "r">>
        trunc == <<"m", "a", "t", "h", ".", "t", "r", "u", "n", "c">>
        round == <<"r", "o", "u", "n", "d">>
        functions == { <<"a", "b", "s">>, round, <<"m", "i", "n">>, <<"m", "a", "x">>,
                       floor, trunc }
        calls == { Call(f, x) : f \in functions, x \in operands \cup operations }
        incomplete == { Missing } \cup { BinOp(op, l, Missing) : op \in {"+", "/"},
                                                                l \in operands }
                      \cup { BinOp(op, Missing, r) : op \in {"+", "-"},
                                                     r \in operands \cup {Missing} }
        third == BinOp("/", Num(1), Num(3))
        tenth == BinOp("/", Num(1), Num(10))
        rounded == { Call(f, x) : f \in {floor, trunc, round},
                                  x \in { BinOp("*", third, Num(10)),
                                          BinOp("+", third, third),
                                          BinOp("-", Num(0), BinOp("*", third, Num(7))),
                                          BinOp("+", tenth, BinOp("/", Num(2), Num(10))),
                                          BinOp("*", BinOp("/", Num(2), Num(3)), Num(4)),
                                          Name(<<"p", "i">>), Name(<<"e">>) } }
        words == { Name(prefix \o k) :
                     prefix \in {<<>>, <<"a", "b", "s", ".">>, <<"p", "i", ".">>},
                     k \in Keywords }
    IN operations \cup calls \cup incomplete \cup rounded \cup words \cup
    { SqrtExample, DivisionByZero,
      BinOp("+", Name(<<"x">>), Num(1)),
      Call(<<"l", "e", "n">>, Num(1)),
      Call(<<"e", "x", "p">>, Num(1)),
      Call(<<"s", "q", "r", "t">>, BinOp("-", Num(0), Num(4))),
      Call(<<"c", "b", "r", "t">>, Num(8)),
      Call(<<"s", "i", "n">>, Num(0)),
      Call(<<"c", "o", "s">>, Num(0)),
      Call(<<"l", "o", "g">>, Num(1)),
      Call(<<"l", "n">>, Num(0)),
      Call(<<"p", "i">>, Num(1)),
      Call(floor, Name(<<"a", "b", "s">>)),
      Call(trunc, Name(<<"a", "b", "s">>)),
      Call(round, Name(<<"a", "b", "s">>)),
      Name(<<"p", "i">>), Name(<<"e">>), Name(<<"a", "b", "s">>),
      Name(<<"_", "_", "b", "u", "i", "l", "t", "i", "n", "s", "_", "_">>),
      Name(<<"_", "_", "b", "u", "i", "l", "t", "i", "n", "s", "_", "_", ".", "x">>),
      Name(<<"p", "i", ".", "i", "m", "a", "g">>),
      Name(<<"a", "b", "s", ".", "_", "_", "d", "o", "c", "_", "_">>),
      Name(<<"m", "a", "t", "h", ".", "x">>), Name(<<"p", "i", "e">>),
      BinOp("+", Name(<<"a", "b", "s">>), Num(1)),
      BinOp("-", Missing, Name(<<"a", "b", "s">>)),
      BinOp("/", Num(8), Num(21)),
      BinOp("/", Num(13), Num(21)),
      BinOp("/", Num(1), Num(2048)),
      BinOp("/", Num(1), Num(100000)),
      BinOp("/", Num(99999999), Num(100000000)),
      BinOp("*", Num(3), BinOp("/", Num(1), Num(4))),
      BinOp("**", Num(2), BinOp("-", Num(0), Num(2))),
      BinOp("+", tenth, BinOp("/", Num(2), Num(10))),
      BinOp("-", Num(0), BinOp("/", Num(1), Num(4))),
      BinOp("/", Num(6), Num(3)),
      BinOp("/", Call(<<"s", "q", "r", "t">>, Num(4)), Num(0)) }

\* the query of the turn's search_my_documents call, as its embedding position
TurnQuery == 0

\* the content shown for a chunk: cut to 397 characters and "..." when it
\* is longer than 400
Truncate(content) ==
    IF content.len > 400
    THEN [body |-> content.body, kept |-> 397, suffix |-> "...", len |-> 397 + 3]
    ELSE [body |-> content.body, kept |-> content.len, suffix |-> "", len |-> content.len]

\* the sections search_my_documents lists for the results of the query
Sections(results) ==
    [i \in 1..Len(results) |->
        [source |-> results[i].metadata.source,
         page |-> results[i].metadata.page,
         content |-> Truncate(results[i].content),
         score |-> results[i].score]]

\* the lines of the response for the sections
RECURSIVE SectionLines(_, _)
SectionLines(sections, i) ==
    IF i > Len(sections) THEN <<>>
    ELSE << "Source " \o ToString(i) \o ": " \o sections[i].source
            \o ", Page " \o ToString(sections[i].page),
            sections[i].content.body \o "[:" \o ToString(sections[i].content.kept)
            \o "]" \o sections[i].content.suffix >>
         \o SectionLines(sections, i + 1)

FoundText(results) ==
    <<"I found " \o ToString(Len(results)) \o " relevant sections in your documents:">>
    \o SectionLines(Sections(results), 1)

\* search_my_documents that goes on to query without looking for the store
search_my_documents_unchecked(outcome, user_id, query) ==
    LET results == query_documents(user_id, query, outcome = "reload_fails",
                                   outcome = "empty", 4)
    IN IF outcome = "fault" THEN Returned(<<"Error searching documents: ">>)
       ELSE IF results = <<>> THEN Returned(NoMatchText)
       ELSE Returned(FoundText(results))

\* outcome "fault": an exception inside the tool; "load_fails": the load of
\* the store by the tool's own get_vectorstore raises; "reload_fails": the
\* load by the get_vectorstore of query_documents raises; "empty": the
\* similarity search of query_documents raises
search_my_documents(outcome, user_id, query) ==
    LET vectorstore == get_vectorstore(user_id, outcome = "load_fails")
        results == query_documents(user_id, query, outcome = "reload_fails",
                                   outcome = "empty", 4)
    IN IF outcome = "fault" THEN Returned(<<"Error searching documents: ">>)
       ELSE IF ~vectorstore.loaded THEN Returned(GuidanceText)
       ELSE IF results = <<>> THEN Returned(NoMatchText)
       ELSE Returned(FoundText(results))

\* the module global google_search when the construction of the wrapper
\* at import succeeded; None is what it is when the construction raised
GoogleSearchAPIWrapper == 1

\* what can happen inside a google_web_search call: without a wrapper
\* nothing but the answer that there is none
GoogleOutcomes ==
    IF google_search = None THEN {"not_configured"}
    ELSE {"ok", "empty", "fault"}

\* without a wrapper the tool answers before it searches; outcome "fault":
\* google_search.run raises; "empty": it returns no text
google_web_search(outcome) ==
    IF google_search = None THEN Returned(<<"Web search not configured">>)
    ELSE CASE outcome = "fault" -> Returned(<<"Error: ">>)
           [] outcome = "empty" -> Returned(<<>>)
           [] OTHER -> Returned(<<"search result">>)

web_scrape(outcome) ==
    CASE outcome = "fault" -> Returned(<<"Error: ">>)
      [] outcome = "no_content" -> Returned(<<"No content found">>)
      [] OTHER -> Returned(<<"Content from ">>)

\* what happens inside a calculator call follows from its expression
CalculatorOutcome(expression) ==
    IF eval(expression).exc # "" THEN "fault" ELSE "ok"

\* the call of a tool; expression is what calculator is called with, and
\* Missing for the other tools
ToolRun(tool, outcome, user_id, expression) ==
    CASE tool = "calculator" -> calculator(expression)
      [] tool = "search_my_documents" -> search_my_documents(outcome, user_id, TurnQuery)
      [] tool = "google_web_search" -> google_web_search(outcome)
      [] tool = "web_scrape" -> web_scrape(outcome)

\* texts by which a tool reports its own failure: the text of an except
\* branch, for calculator with str(e) of what the evaluation raised, and
\* the text of google_web_search without a wrapper
FailureTexts ==
    {<<"Error: ">>, <<"Error searching documents: ">>, <<"Web search not configured">>}
    \cup { <<"Error: ", eval(x).err>> : x \in {y \in Expressions : eval(y).exc # ""} }

\* ------------------------------------------------ agents/memory/extractor.py
extract(backendFails, d) ==
    IF backendFails THEN MemoryDecision(FALSE, <<>>) ELSE d

\* ------------------------------------------------------- agents/nodes.py
\* one namespace for the facts of all users
NamespaceShared(user_id) == <<"user", "details">>

\* ns = ("user", str(user_id), "details")
Namespace(user_id) == <<"user", ToString(user_id), "details">>
Namespaces == {Namespace(u) : u \in Users}

\* store.put(ns, str(uuid.uuid4()), {"data": text}) for each text: every put
\* has a key of its own, so it adds an item
store_put(items, texts) == items \o texts

\* the store.put loop without the `if mem.is_new` test
RECURSIVE PutLoopAll(_, _, _)
PutLoopAll(mems, putFailAt, done) ==
    IF mems = <<>> THEN <<>>
    ELSE IF putFailAt = done + 1 THEN <<>>
         ELSE <<Head(mems).text>> \o PutLoopAll(Tail(mems), putFailAt, done + 1)

\* the store.put loop: putFailAt = k > 0 makes the k-th store.put raise
RECURSIVE PutLoop(_, _, _)
PutLoop(mems, putFailAt, done) ==
    IF mems = <<>> THEN <<>>
    ELSE IF Head(mems).is_new
         THEN IF putFailAt = done + 1 THEN <<>>
              ELSE <<Head(mems).text>> \o PutLoop(Tail(mems), putFailAt, done + 1)
         ELSE PutLoop(Tail(mems), putFailAt, done)

\* number of store.put calls the loop attempts
RECURSIVE CountNew(_)
CountNew(mems) ==
    IF mems = <<>> THEN 0
    ELSE (IF Head(mems).is_new THEN 1 ELSE 0) + CountNew(Tail(mems))

\* remember_node whose loop runs whatever should_write says
remember_node_unconditional(searchFails, backendFails, d, putFailAt) ==
    LET dec == extract(backendFails, d)
        puts == PutLoop(dec.memories, putFailAt, 0)
        putFailed == putFailAt > 0 /\ putFailAt <= CountNew(dec.memories)
    IN [decision |-> dec,
        puts |-> puts,
        failed |-> (IF searchFails THEN {"search"} ELSE {}) \cup
                   (IF backendFails THEN {"extract"} ELSE {}) \cup
                   (IF putFailed THEN {"put"} ELSE {}),
        raised |-> searchFails]

\* remember_node: the decision, the facts it put, the steps that failed in
\* it and whether it raised
remember_node(searchFails, backendFails, d, putFailAt) ==
    LET dec == extract(backendFails, d)
        writes == dec.should_write /\ dec.memories # <<>>
        puts == IF writes THEN PutLoop(dec.memories, putFailAt, 0) ELSE <<>>
        putFailed == writes /\ putFailAt > 0 /\ putFailAt <= CountNew(dec.memories)
    IN [decision |-> dec,
        puts |-> puts,
        failed |-> (IF searchFails THEN {"search"} ELSE {}) \cup
                   (IF backendFails THEN {"extract"} ELSE {}) \cup
                   (IF putFailed THEN {"put"} ELSE {}),
        \* `if items:` after the try blocks: items is unbound when store.search raised
        raised |-> searchFails]

\* ------------------------------------------------------------- chatbot.py
\* a loop body reporting a tool's completion before its start
HandleChunkCompleteFirst(raw, started) ==
    IF raw.node = "tools"
    THEN [out |-> (IF raw.content # <<>>
                   THEN <<ToolCompleteChunk(raw.name)>> ELSE <<>>) \o
                  <<ToolStartChunk(raw.name)>>,
          started |-> started]
    ELSE [out |-> <<>>, started |-> started]

\* the body of `for chunk in sync_stream()` for one raw item
HandleChunk(raw, started) ==
    CASE raw.node = "remember" -> [out |-> <<>>, started |-> started]
      [] raw.node = "chat_node" ->
            IF raw.content # <<>>
            THEN IF ~started
                 THEN [out |-> <<StatusChunk("generation", "started"),
                                 ContentChunk(raw.content)>>,
                       started |-> TRUE]
                 ELSE [out |-> <<ContentChunk(raw.content)>>, started |-> started]
            ELSE [out |-> <<>>, started |-> started]
      [] raw.node = "tools" ->
            [out |-> <<ToolStartChunk(raw.name)>> \o
                     (IF raw.content # <<>>
                      THEN <<ToolCompleteChunk(raw.name)>> ELSE <<>>),
             started |-> started]
      [] OTHER -> [out |-> <<>>, started |-> started]

\* an except branch that only logs
OnExceptionSilent(cs) == cs

\* the `except Exception` branch of chat_stream
OnException(cs) == Append(cs, ErrorChunk)

RECURSIVE FormatHistory(_)
FormatHistory(messages) ==
    IF messages = <<>> THEN <<>>
    ELSE LET m == Head(messages)
             rest == FormatHistory(Tail(messages))
         IN CASE m.type = "human" ->
                    <<[role |-> "user", content |-> m.content]>> \o rest
              [] m.type = "ai" ->
                    <<[role |-> "assistant", content |-> m.content]>> \o rest
              [] OTHER -> rest

\* graph.get_state(config): a key nothing was saved under has no messages;
\* when get_state raises, the except branch logs and returns []
get_thread_history(user_id, thread_id, stateRaises) ==
    LET k == HistoryKey(user_id, thread_id)
    IN IF stateRaises THEN <<>>
       ELSE IF k \in DOMAIN checkpoint THEN FormatHistory(checkpoint[k])
       ELSE <<>>

\* ---------------------------------------------------------- routers/chat.py
\* f"data: {json.dumps(chunk)}\n\n"
SSE(chunk) == [data |-> chunk]
RECURSIVE SSEs(_)
SSEs(cs) == IF cs = <<>> THEN <<>> ELSE <<SSE(Head(cs))>> \o SSEs(Tail(cs))
\* "data: [DONE]\n\n": its payload is not the JSON text of any chunk
DoneEvent ==
    [data |-> [type |-> "[DONE]", step |-> "", status |-> "", tool |-> "",
               data |-> <<>>]]

\* an event_generator that ends without the completion signal
event_generator_end_silent(es) == es

\* event_generator after chat_stream is exhausted
event_generator_end(es) == Append(es, DoneEvent)

\* ------------------------------------------------------------------ state
NoMemory ==
    [decision |-> MemoryDecision(FALSE, <<>>), puts |-> <<>>, failed |-> {},
     raised |-> FALSE]
NoTurn == [user |-> None, thread |-> 0, message |-> <<>>, base |-> 0]
Ended == {"idle", "done", "error", "cancelled"}
\* the turn raised: it is suspended at the yield of its error chunk
\* ("failing") or has returned after it ("error")
Failing == {"failing", "error"}
Running == {"started", "remember", "chat_node", "tools", "END"}
KeyOf(t) == CheckpointKey(turn[t].user, turn[t].thread)

\* ------------------------------------------- infrastructure/database.py
\* one event on a connection of the DatabaseResources of an agent
Opened(agent, cm) == [agent |-> agent, cm |-> cm, event |-> "open"]
Closed(agent, cm) == [agent |-> agent, cm |-> cm, event |-> "close"]

EnterOutcomes == {"ok", "checkpointer_fails", "store_fails", "setup_fails"}

\* DatabaseResources.__exit__ for the context managers that were entered:
\* the store first, then the checkpointer
db_resources_exit(agent, entered) ==
    (IF "store" \in entered THEN <<Closed(agent, "store")>> ELSE <<>>) \o
    (IF "checkpointer" \in entered THEN <<Closed(agent, "checkpointer")>> ELSE <<>>)

\* DatabaseResources.__enter__: the connection events it causes and whether
\* it raises; a failure closes what was entered and re-raises
db_resources_enter(agent, outcome) ==
    CASE outcome = "checkpointer_fails" ->
            [events |-> db_resources_exit(agent, {}), raised |-> TRUE]
      [] outcome = "store_fails" ->
            [events |-> <<Opened(agent, "checkpointer")>>
                        \o db_resources_exit(agent, {"checkpointer"}),
             raised |-> TRUE]
      [] outcome = "setup_fails" ->
            [events |-> <<Opened(agent, "checkpointer"), Opened(agent, "store")>>
                        \o db_resources_exit(agent, {"checkpointer", "store"}),
             raised |-> TRUE]
      [] OTHER ->
            [events |-> <<Opened(agent, "checkpointer"), Opened(agent, "store")>>,
             raised |-> FALSE]

\* ------------------------------------------ chatbot.py: the agent singleton
GetCall(result) == [call |-> "get_chatbot_agent", result |-> result]
CleanupCall == [call |-> "cleanup_chatbot_agent", result |-> None]
\* result of a call that raised
RaisedResult == -1

\* get_chatbot_agent: the global when it is set; else a ChatbotAgent is
\* constructed, which enters its DatabaseResources, and the global is set
\* unless the constructor raised
get_chatbot_agent(outcome) ==
    IF chatbot_agent # None
    THEN [global |-> chatbot_agent, created |-> created, events |-> <<>>,
          result |-> chatbot_agent]
    ELSE LET agent == created + 1
             r == db_resources_enter(agent, outcome)
         IN [global |-> IF r.raised THEN None ELSE agent, created |-> agent,
             events |-> r.events,
             result |-> IF r.raised THEN RaisedResult ELSE agent]

\* --------------------------------------------------- routers/documents.py
\* An uploaded file: the name it is sent with and what the PDF loader
\* makes of its bytes
File(filename, pages) == [filename |-> filename, pages |-> pages]

\* the users, the uploads and the faults of a behaviour of the document
\* pipeline: of the embedding, of the commit that inserts the row, of the
\* commits of the background task and of the removal of the temporary file
DocsEnv ==
    [users |-> Users, maxUploads |-> MaxUploads,
     files |-> { File("a.pdf", PdfA), File("e.pdf", NoPages),
                 File("notes.txt", NoPages) },
     embedFails |-> {FALSE}, insertFails |-> BOOLEAN, commitFails |-> {FALSE},
     removeFails |-> {FALSE}]

\* one user whose background tasks meet commits and removals that raise
StatusEnv ==
    [users |-> {1}, maxUploads |-> MaxUploads,
     files |-> { File("a.pdf", PdfA), File("e.pdf", NoPages) },
     embedFails |-> {FALSE}, insertFails |-> {FALSE}, commitFails |-> BOOLEAN,
     removeFails |-> BOOLEAN]

\* one user who uploads two documents, again after deleting the row or
\* while an upload of the same name is still being read
IngestEnv ==
    [users |-> {1}, maxUploads |-> MaxUploads,
     files |-> { File("a.pdf", PdfA), File("b.pdf", PdfB) },
     embedFails |-> BOOLEAN, insertFails |-> {FALSE}, commitFails |-> {FALSE},
     removeFails |-> {FALSE}]

\* uploads of the caller who asks about documents
RagDocsEnv ==
    [users |-> {1}, maxUploads |-> MaxIngests,
     files |-> { File("d.pdf", PdfD) },
     embedFails |-> BOOLEAN, insertFails |-> {FALSE}, commitFails |-> {FALSE},
     removeFails |-> {FALSE}]

\* one user who uploads and searches
SearchEnv ==
    [users |-> {1}, maxUploads |-> MaxUploads,
     files |-> { File("a.pdf", PdfA), File("b.pdf", PdfB) },
     embedFails |-> BOOLEAN, insertFails |-> {FALSE}, commitFails |-> {FALSE},
     removeFails |-> {FALSE}]
Queries == {0, 8}

\* a row of the documents table; present is FALSE once the row is deleted
Document(id, user_id, filename) ==
    [id |-> id, user_id |-> user_id, filename |-> filename, status |-> "processing",
     error_message |-> "", present |-> TRUE]

\* an upload that passed the checks of upload_document, and the background
\* task it adds: at is its position ("reading" while the handler awaits
\* file.read(), "updated" and "handled" when the task has written the status
\* and not yet run its finally block, "done" and "failed" when it has
\* ended), doc_id the id of the row it inserted (None before), loaded
\* the chunks of the saved store it loaded, vectorstore the store it holds
\* in memory, stale whether the directory changed between its load and its
\* save
Job(pdf_path, user_id, file) ==
    [at |-> "reading", pdf_path |-> pdf_path, user_id |-> user_id, doc_id |-> None,
     filename |-> file.filename, pages |-> file.pages, loaded |-> <<>>,
     vectorstore |-> <<>>, error |-> "", stale |-> FALSE]

\* no direct search was made yet
NoSearch == [user_id |-> None, query |-> 0, text |-> <<>>]

\* filename.endswith(".pdf") for the file names of the model
IsPdfName(filename) == filename \in {"a.pdf", "b.pdf", "copy.pdf", "d.pdf", "e.pdf"}

\* the row upload_document finds for the same user and filename, if any
existing_doc(user_id, filename) ==
    {i \in 1..Len(documents) :
        /\ documents[i].present
        /\ documents[i].user_id = user_id
        /\ documents[i].filename = filename}

\* the status code upload_document answers with
upload_status(user_id, filename) ==
    IF ~IsPdfName(filename) THEN 400
    ELSE IF existing_doc(user_id, filename) # {} THEN 400
    ELSE 200

\* ------------------------------------------------------- routers/chat.py
\* a row of the threads table; present is FALSE once the row is deleted
NewConversation == <<"New conversation">>
Thread(user_id) == [user_id |-> user_id, title |-> NewConversation, present |-> TRUE]
\* the title update_thread_title is called with
Titles == {<<"renamed">>}

\* the answer to a /api/chat/stream request: its status code, who asked for
\* which thread, the title of the Thread object the handler holds, and
\* whether the event_generator of the response has still to run its
\* finally block
Response(code, user_id, thread_id, title) ==
    [status |-> code, user_id |-> user_id, thread_id |-> thread_id, title |-> title,
     open |-> code = 200]
NoResponse == Response(0, None, None, <<>>)

\* the answer of get_thread: the status code, and for 200 the body
ThreadResponse(code, thread_id, history) ==
    [status |-> code, thread_id |-> thread_id, history |-> history]

\* thread ids a request can name; None stands for a request without one
RequestedThreads == {None} \cup Threads

\* the thread the query finds whatever its owner
find_thread_by_id(user_id, thread_id) ==
    {i \in 1..Len(threads) : i = thread_id /\ threads[i].present}

\* the thread the query of lines 37-44 finds: this id and this owner
find_thread(user_id, thread_id) ==
    {i \in 1..Len(threads) :
        i = thread_id /\ threads[i].present /\ threads[i].user_id = user_id}

\* new_title of event_generator's finally block: request.message[:50], and
\* "..." when the message is longer
new_title(message) ==
    IF Len(message) > 50 THEN SubSeq(message, 1, 50) \o <<"...">> ELSE message

\* the finally block of event_generator: the Thread object of the handler
\* gets the new title when its own is empty or "New conversation", and the
\* commit writes it to the row unless the row was deleted meanwhile
thread_after_stream(t) ==
    LET id == http[t].thread_id
    IN IF /\ http[t].open
          /\ id \in 1..Len(threads)
          /\ threads[id].present
          /\ http[t].title \in {<<>>, NewConversation}
       THEN [threads EXCEPT ![id].title = new_title(turn[t].message)]
       ELSE threads

\* ------------------------------------------------- environments of the turns
ChatEnv ==
    [tasks |-> {1}, maxTurns |-> MaxChatTurns, toolStepsPerTurn |-> MaxToolSteps,
     freshInputs |-> TRUE, reuseTasks |-> TRUE, users |-> {1},
     outputs |-> ModelOutputs, outcomes |-> Outcomes,
     llmFails |-> BOOLEAN,
     decisions |-> {MemoryDecision(FALSE, <<>>)},
     searchFails |-> BOOLEAN, backendFails |-> {FALSE}, putFailAts |-> {0},
     expressions |-> {SqrtExample, DivisionByZero}]

\* one caller whose model requests tools: every outcome of the tools, with
\* and without the search wrapper, and expressions the calculator answers
\* with a result and with the message of each kind of exception
ToolsEnv ==
    [tasks |-> {1}, maxTurns |-> MaxChatTurns, toolStepsPerTurn |-> MaxToolSteps,
     freshInputs |-> TRUE, reuseTasks |-> TRUE, users |-> {1},
     outputs |-> { [text |-> << <<"a">> >>, tool_calls |-> <<>>],
                   [text |-> <<>>, tool_calls |-> <<"google_web_search">>],
                   [text |-> << <<"t">> >>, tool_calls |-> <<"web_scrape">>],
                   [text |-> <<>>, tool_calls |-> <<"search_my_documents", "calculator">>] },
     outcomes |-> Outcomes,
     llmFails |-> {FALSE},
     decisions |-> {MemoryDecision(FALSE, <<>>)},
     searchFails |-> {FALSE}, backendFails |-> {FALSE}, putFailAts |-> {0},
     expressions |-> { SqrtExample, DivisionByZero,
                       BinOp("+", Name(<<"x">>), Num(1)),
                       BinOp("*", Num(2), Missing) }]

MemoryEnv ==
    [tasks |-> {1}, maxTurns |-> MaxTurns, toolStepsPerTurn |-> MaxToolSteps,
     freshInputs |-> TRUE, reuseTasks |-> TRUE, users |-> Users,
     outputs |-> { [text |-> << <<"a">> >>, tool_calls |-> <<>>],
                   [text |-> <<>>, tool_calls |-> <<"calculator">>] },
     outcomes |-> {"ok"},
     llmFails |-> {FALSE},
     decisions |-> Decisions,
     searchFails |-> BOOLEAN, backendFails |-> BOOLEAN, putFailAts |-> 0..2,
     expressions |-> {SqrtExample}]

\* several requests at the same time; the answers carry no text, so the
\* turns interleave at the graph steps and at the tool chunks
ConcurrentEnv ==
    [tasks |-> Tasks, maxTurns |-> NumTasks, toolStepsPerTurn |-> 1,
     freshInputs |-> FALSE, reuseTasks |-> FALSE, users |-> Users,
     outputs |-> { [text |-> <<>>, tool_calls |-> <<>>],
                   [text |-> <<>>, tool_calls |-> <<"search_my_documents">>] },
     outcomes |-> {"ok"},
     llmFails |-> {FALSE},
     decisions |-> {MemoryDecision(FALSE, <<>>)},
     searchFails |-> {FALSE}, backendFails |-> {FALSE}, putFailAts |-> {0},
     expressions |-> {SqrtExample}]

\* one caller asking about documents while documents are being ingested
RagEnv ==
    [tasks |-> {1}, maxTurns |-> MaxChatTurns, toolStepsPerTurn |-> 1,
     freshInputs |-> FALSE, reuseTasks |-> TRUE, users |-> {1},
     outputs |-> { [text |-> << <<"a">> >>, tool_calls |-> <<>>],
                   [text |-> <<>>, tool_calls |-> <<"search_my_documents">>] },
     outcomes |-> {"ok", "empty", "fault", "load_fails", "reload_fails"},
     llmFails |-> {FALSE},
     decisions |-> {MemoryDecision(FALSE, <<>>)},
     searchFails |-> {FALSE}, backendFails |-> {FALSE}, putFailAts |-> {0},
     expressions |-> {SqrtExample}]

\* several requests streaming multi-fragment answers at the same time
StreamEnv ==
    [tasks |-> Tasks, maxTurns |-> NumTasks, toolStepsPerTurn |-> 1,
     freshInputs |-> FALSE, reuseTasks |-> FALSE, users |-> Users,
     outputs |-> { [text |-> << <<"a">>, <<"b">> >>, tool_calls |-> <<>>],
                   [text |-> <<>>, tool_calls |-> <<"calculator">>] },
     outcomes |-> {"ok"},
     llmFails |-> {FALSE},
     decisions |-> {MemoryDecision(FALSE, <<>>)},
     searchFails |-> {FALSE}, backendFails |-> {FALSE}, putFailAts |-> {0},
     expressions |-> {SqrtExample}]

\* requests of two users that start turns answered in one fragment; one of
\* them also asks for threads, their own and the other's
RouterEnv ==
    [tasks |-> {1, 2}, maxTurns |-> MaxChatTurns, toolStepsPerTurn |-> 1,
     freshInputs |-> FALSE, reuseTasks |-> TRUE, users |-> Users,
     outputs |-> { [text |-> << <<"a">> >>, tool_calls |-> <<>>] },
     outcomes |-> {"ok"},
     llmFails |-> {FALSE},
     decisions |-> {MemoryDecision(FALSE, <<>>)},
     searchFails |-> {FALSE}, backendFails |-> {FALSE}, putFailAts |-> {0},
     expressions |-> {SqrtExample},
     enterOutcomes |-> {"ok", "store_fails"}, readers |-> {1},
     stateRaises |-> BOOLEAN]

Init ==
    /\ pc = [t \in Tasks |-> "idle"]
    /\ turn = [t \in Tasks |-> NoTurn]
    /\ ctx = [t \in Tasks |-> None]
    /\ msgs = [t \in Tasks |-> <<>>]
    /\ pending = [t \in Tasks |-> <<>>]
    /\ resuming = [t \in Tasks |-> <<>>]
    /\ chunks = [t \in Tasks |-> <<>>]
    /\ events = [t \in Tasks |-> <<>>]
    /\ checkpoint = [k \in Keys |-> <<>>]
    /\ store = [ns \in Namespaces |-> <<>>]
    /\ memoryReads = [t \in Tasks |-> {}]
    /\ generation_started = FALSE
    /\ busy = None
    /\ index = [p \in IndexPaths |-> NoIndex]
    /\ turns = 0
    /\ toolSteps = 0
    /\ nodes = [t \in Tasks |-> <<>>]
    /\ memory = [t \in Tasks |-> NoMemory]
    /\ faults = [t \in Tasks |-> <<>>]
    /\ ragReads = [t \in Tasks |-> <<>>]
    /\ log = [k \in Keys |-> <<>>]
    /\ aborted = [k \in Keys |-> FALSE]
    /\ overlapped = [k \in Keys |-> FALSE]
    /\ chatbot_agent = None
    /\ created = 0
    /\ connections = <<>>
    /\ agentCalls = <<>>
    /\ google_search \in {None, GoogleSearchAPIWrapper}
    /\ documents = <<>>
    /\ jobs = <<>>
    /\ tmpfiles = {}
    /\ found = NoSearch
    /\ threads = <<>>
    /\ http = [t \in Tasks |-> NoResponse]
    /\ fetched = ThreadResponse(0, None, <<>>)

\* chat_stream up to its first yield: bind the user, build the config,
\* yield the memory status chunk
StartTurnOn(t, E, u, th) ==
    /\ busy = None
    /\ turns < E.maxTurns
    /\ turn' = [turn EXCEPT ![t] =
                   [user |-> u, thread |-> th, base |-> 0,
                    message |-> IF E.freshInputs THEN Input(turns + 1)
                                ELSE Input(1)]]
    /\ ctx' = set_current_user_id(ctx, t, u)
    /\ overlapped' =
         [overlapped EXCEPT ![CheckpointKey(u, th)] =
             @ \/ \E o \in Tasks \ {t} :
                    pc[o] \in Running /\ KeyOf(o) = CheckpointKey(u, th)]
    /\ pc' = [pc EXCEPT ![t] = "started"]
    /\ chunks' = [chunks EXCEPT ![t] = <<StatusChunk("memory", "retrieving")>>]
    /\ events' = [events EXCEPT ![t] = SSEs(<<StatusChunk("memory", "retrieving")>>)]
    /\ turns' = turns + 1
    /\ msgs' = [msgs EXCEPT ![t] = <<>>]
    /\ pending' = [pending EXCEPT ![t] = <<>>]
    /\ resuming' = [resuming EXCEPT ![t] = <<>>]
    /\ nodes' = [nodes EXCEPT ![t] = <<>>]
    /\ memory' = [memory EXCEPT ![t] = NoMemory]
    /\ faults' = [faults EXCEPT ![t] = <<>>]
    /\ ragReads' = [ragReads EXCEPT ![t] = <<>>]
    /\ memoryReads' = [memoryReads EXCEPT ![t] = {}]
    /\ UNCHANGED <<checkpoint, store, generation_started, busy, toolSteps, log,
                   aborted>>

\* a chat_stream call for some user and thread
StartTurn(t, E) ==
    /\ pc[t] \in Ended
    /\ E.reuseTasks \/ pc[t] = "idle"
    /\ \E u \in E.users, th \in Threads : StartTurnOn(t, E, u, th)

\* graph.stream begins: the checkpoint of the thread is loaded, the input
\* message is appended and saved, and START hands over to its successor
GraphStart(t) ==
    /\ busy = None
    /\ pc[t] = "started"
    /\ LET k == KeyOf(t)
           ms == Append(checkpoint[k], HumanMessage(turn[t].message))
       IN /\ msgs' = [msgs EXCEPT ![t] = ms]
          /\ checkpoint' = [checkpoint EXCEPT ![k] = ms]
          /\ turn' = [turn EXCEPT ![t].base = Len(checkpoint[k])]
          /\ pc' = [pc EXCEPT ![t] = Successor("START", Last(ms))]
    /\ nodes' = [nodes EXCEPT ![t] = <<"START">>]
    /\ UNCHANGED <<ctx, pending, resuming, chunks, events, store, memoryReads,
                   generation_started, busy, turns, toolSteps, memory, faults,
                   ragReads, log, aborted, overlapped>>

\* an exception escapes the graph run: the except branch of chat_stream
\* yields the error chunk, event_generator forwards it, and both stay
\* suspended at their yield
Abort(t) ==
    /\ pc' = [pc EXCEPT ![t] = "failing"]
    /\ chunks' = [chunks EXCEPT ![t] = OnException(chunks[t])]
    /\ events' = [events EXCEPT ![t] =
                     @ \o SSEs(SubSeq(OnException(chunks[t]), Len(chunks[t]) + 1,
                                      Len(OnException(chunks[t]))))]
    /\ aborted' = [aborted EXCEPT ![KeyOf(t)] = TRUE]

\* the consumer pulls after the error chunk: chat_stream returns and
\* event_generator sends the completion signal
Failed(t) ==
    /\ busy = None
    /\ pc[t] = "failing"
    /\ pc' = [pc EXCEPT ![t] = "error"]
    /\ events' = [events EXCEPT ![t] = event_generator_end(@)]
    /\ UNCHANGED <<turn, ctx, msgs, pending, resuming, chunks, checkpoint, store,
                   memoryReads, generation_started, busy, turns, toolSteps, nodes,
                   memory, faults, ragReads, log, aborted, overlapped>>

RememberNode(t, E) ==
    /\ busy \in {None, t}
    /\ busy' = None
    /\ pc[t] = "remember"
    /\ pending[t] = <<>>
    /\ resuming[t] = <<>>
    /\ \E searchFails \in E.searchFails, backendFails \in E.backendFails,
          d \in E.decisions, putFailAt \in E.putFailAts :
        LET r == remember_node(searchFails, backendFails, d, putFailAt)
        IN /\ store' = [store EXCEPT ![Namespace(turn[t].user)] =
                                           store_put(@, r.puts)]
           /\ memory' = [memory EXCEPT ![t] = r]
           /\ IF r.raised
              THEN /\ Abort(t)
                   /\ UNCHANGED pending
              ELSE /\ pc' = [pc EXCEPT ![t] = Successor("remember", Last(msgs[t]))]
                   /\ pending' = [pending EXCEPT ![t] =
                         IF backendFails THEN <<>>
                         ELSE <<RawChunk("remember", "", <<"decision">>)>>]
                   /\ UNCHANGED <<chunks, events, aborted>>
    /\ nodes' = [nodes EXCEPT ![t] = Append(@, "remember")]
    /\ memoryReads' = [memoryReads EXCEPT ![t] = @ \cup {Namespace(turn[t].user)}]
    /\ UNCHANGED <<turn, ctx, msgs, resuming, checkpoint, generation_started, turns,
                   toolSteps, faults, ragReads, log, overlapped>>

RECURSIVE ContentItems(_)
ContentItems(text) ==
    IF text = <<>> THEN <<>>
    ELSE <<RawChunk("chat_node", "", Head(text))>> \o ContentItems(Tail(text))

\* chat_node: llm_with_tools.invoke either raises or returns the response,
\* whose fragments are streamed; the response is appended and saved
ChatNode(t, E) ==
    /\ busy \in {None, t}
    /\ busy' = None
    /\ pc[t] = "chat_node"
    /\ pending[t] = <<>>
    /\ resuming[t] = <<>>
    /\ nodes' = [nodes EXCEPT ![t] = Append(@, "chat_node")]
    /\ memoryReads' = [memoryReads EXCEPT ![t] = @ \cup {Namespace(turn[t].user)}]
    /\ memory' = [memory EXCEPT ![t] = NoMemory]
    /\ faults' = [faults EXCEPT ![t] = <<>>]
    /\ \E llmFails \in E.llmFails, out \in E.outputs :
        /\ (\/ toolSteps >= MaxToolSteps
            \/ Len(SelectSeq(nodes[t], LAMBDA x : x = "tools")) >= E.toolStepsPerTurn)
           => out.tool_calls = <<>>
        /\ IF llmFails
           THEN /\ Abort(t)
                /\ UNCHANGED <<msgs, checkpoint, pending>>
           ELSE LET ms == Append(msgs[t], AIMessage(out))
                IN /\ msgs' = [msgs EXCEPT ![t] = ms]
                   /\ checkpoint' = [checkpoint EXCEPT ![KeyOf(t)] = ms]
                   /\ pending' = [pending EXCEPT ![t] =
                         ContentItems(out.text) \o
                         (IF out.tool_calls # <<>>
                          THEN <<RawChunk("chat_node", "", <<>>)>> ELSE <<>>)]
                   /\ pc' = [pc EXCEPT ![t] = Successor("chat_node", Last(ms))]
                   /\ UNCHANGED <<chunks, events, aborted>>
    /\ UNCHANGED <<turn, ctx, resuming, store, generation_started, turns, toolSteps,
                   ragReads, log, overlapped>>

\* ToolNode: every requested tool runs in the caller's context with the
\* arguments the model gave, the results are appended in request order and
\* saved
ToolsNode(t, E) ==
    /\ busy \in {None, t}
    /\ busy' = None
    /\ pc[t] = "tools"
    /\ pending[t] = <<>>
    /\ resuming[t] = <<>>
    /\ nodes' = [nodes EXCEPT ![t] = Append(@, "tools")]
    /\ toolSteps' = toolSteps + 1
    /\ LET calls == Last(msgs[t]).tool_calls
           n == Len(calls)
           calculations == {i \in 1..n : calls[i] = "calculator"}
       IN \E expressions \in [calculations -> E.expressions] :
          \E outs \in [1..n -> Outcomes] :
            /\ \A i \in 1..n :
                 /\ outs[i] \in ToolOutcomes(calls[i])
                 /\ outs[i] \in E.outcomes \/ ToolOutcomes(calls[i]) \cap E.outcomes = {}
                 /\ calls[i] = "calculator" => outs[i] = CalculatorOutcome(expressions[i])
                 /\ calls[i] = "google_web_search" => outs[i] \in GoogleOutcomes
            /\ LET uid == get_current_user_id(ctx, t)
                   res == [i \in 1..n |->
                             ToolRun(calls[i], outs[i], uid,
                                     IF i \in calculations THEN expressions[i]
                                     ELSE Missing)]
                   tms == [i \in 1..n |-> ToolMessage(calls[i], res[i].text)]
                   ms == msgs[t] \o tms
               IN /\ faults' = [faults EXCEPT ![t] =
                                  [i \in 1..n |-> outs[i] = "fault"]]
                  /\ ragReads' = [ragReads EXCEPT ![t] = @ \o
                        SelectSeq([i \in 1..n |->
                                     IF calls[i] = "search_my_documents"
                                     THEN uid ELSE -1],
                                  LAMBDA x : x # -1)]
                  /\ IF \E i \in 1..n : res[i].raised
                     THEN /\ Abort(t)
                          /\ UNCHANGED <<msgs, checkpoint, pending>>
                     ELSE /\ msgs' = [msgs EXCEPT ![t] = ms]
                          /\ checkpoint' = [checkpoint EXCEPT ![KeyOf(t)] = ms]
                          /\ pending' = [pending EXCEPT ![t] =
                                [i \in 1..n |->
                                    RawChunk("tools", calls[i], res[i].text)]]
                          /\ pc' = [pc EXCEPT ![t] = Successor("tools", Last(ms))]
                          /\ UNCHANGED <<chunks, events, aborted>>
    /\ UNCHANGED <<turn, ctx, resuming, store, memoryReads, generation_started, turns,
                   memory, log, overlapped>>

\* one iteration of the loop over the graph's stream, after its
\* `await asyncio.sleep(0)` and up to its first yield: the first chunk goes
\* out, the generator is suspended at the yield and the chunks the
\* iteration yields after it wait for the consumer's next pulls
Deliver(t) ==
    /\ busy = None
    /\ pc[t] \in Running
    /\ resuming[t] = <<>>
    /\ pending[t] # <<>>
    /\ LET r == HandleChunk(Head(pending[t]), generation_started)
       IN /\ chunks' = [chunks EXCEPT ![t] = @ \o FirstK(r.out, 1)]
          /\ events' = [events EXCEPT ![t] = @ \o SSEs(FirstK(r.out, 1))]
          /\ resuming' = [resuming EXCEPT ![t] = SubSeq(r.out, 2, Len(r.out))]
          /\ generation_started' = r.started
    /\ pending' = [pending EXCEPT ![t] = Tail(@)]
    /\ UNCHANGED <<pc, turn, ctx, msgs, checkpoint, store, memoryReads, busy, turns,
                   toolSteps, nodes, memory, faults, ragReads, log, aborted,
                   overlapped>>

\* the consumer pulls while the loop iteration is suspended at a yield that
\* another yield follows: the next chunk goes out
Resume(t) ==
    /\ busy = None
    /\ pc[t] \in Running
    /\ resuming[t] # <<>>
    /\ chunks' = [chunks EXCEPT ![t] = Append(@, Head(resuming[t]))]
    /\ events' = [events EXCEPT ![t] = Append(@, SSE(Head(resuming[t])))]
    /\ resuming' = [resuming EXCEPT ![t] = Tail(@)]
    /\ UNCHANGED <<pc, turn, ctx, msgs, pending, checkpoint, store, memoryReads,
                   generation_started, busy, turns, toolSteps, nodes, memory, faults,
                   ragReads, log, aborted, overlapped>>

\* the stream is exhausted: the flag is reset, the generator returns and
\* event_generator sends the completion signal
Finish(t) ==
    /\ busy = None
    /\ pc[t] = "END"
    /\ pending[t] = <<>>
    /\ resuming[t] = <<>>
    /\ pc' = [pc EXCEPT ![t] = "done"]
    /\ events' = [events EXCEPT ![t] = event_generator_end(@)]
    /\ generation_started' = FALSE
    /\ log' = [log EXCEPT ![KeyOf(t)] =
                  Append(@, <<turn[t].message, Last(msgs[t]).content>>)]
    /\ UNCHANGED <<turn, ctx, msgs, pending, resuming, chunks, checkpoint, store, memoryReads,
                   busy, turns, toolSteps, nodes, memory, faults, ragReads, aborted,
                   overlapped>>

\* the consumer disconnects while the generator is suspended: the generator
\* and the graph run are closed and their locals dropped, neither the except
\* branch nor the flag reset runs; closing event_generator runs its finally
\* block
Cancel(t) ==
    /\ busy = None
    /\ pc[t] \in Running \cup {"failing"}
    /\ pc' = [pc EXCEPT ![t] = "cancelled"]
    /\ pending' = [pending EXCEPT ![t] = <<>>]
    /\ resuming' = [resuming EXCEPT ![t] = <<>>]
    /\ msgs' = [msgs EXCEPT ![t] = <<>>]
    /\ chunks' = [chunks EXCEPT ![t] = <<>>]
    /\ events' = [events EXCEPT ![t] = <<>>]
    /\ nodes' = [nodes EXCEPT ![t] = <<>>]
    /\ memory' = [memory EXCEPT ![t] = NoMemory]
    /\ faults' = [faults EXCEPT ![t] = <<>>]
    /\ ragReads' = [ragReads EXCEPT ![t] = <<>>]
    /\ memoryReads' = [memoryReads EXCEPT ![t] = {}]
    /\ aborted' = [aborted EXCEPT ![KeyOf(t)] = TRUE]
    /\ threads' = thread_after_stream(t)
    /\ http' = [http EXCEPT ![t].open = FALSE]
    /\ UNCHANGED <<turn, ctx, checkpoint, store, generation_started, busy, turns,
                   toolSteps, log, overlapped, fetched>>

\* the steps of a turn that has started
Run(t, E) ==
    \/ GraphStart(t) /\ UNCHANGED routerVars
    \/ RememberNode(t, E) /\ UNCHANGED routerVars
    \/ ChatNode(t, E) /\ UNCHANGED routerVars
    \/ ToolsNode(t, E) /\ UNCHANGED routerVars
    \/ Deliver(t) /\ UNCHANGED routerVars
    \/ Resume(t) /\ UNCHANGED routerVars
    \/ Finish(t) /\ UNCHANGED routerVars
    \/ Failed(t) /\ UNCHANGED routerVars
    \/ Cancel(t)

Step(E) ==
    /\ UNCHANGED <<index, agentVars, docVars>>
    /\ \E t \in E.tasks :
        \/ StartTurn(t, E) /\ UNCHANGED routerVars
        \/ Run(t, E)

\* the start of the specifications that are not about the tools: the
\* search wrapper was built at import
InitConfigured == Init /\ google_search = GoogleSearchAPIWrapper

Next == Step(ChatEnv)
Spec == InitConfigured /\ [][Next]_vars

NextTools == Step(ToolsEnv)
SpecTools == Init /\ [][NextTools]_vars

NextMemory == Step(MemoryEnv)
SpecMemory == InitConfigured /\ [][NextMemory]_vars

NextConcurrent == Step(ConcurrentEnv)
SpecConcurrent == InitConfigured /\ [][NextConcurrent]_vars

\* the pull of the next item from graph.stream has entered a node whose
\* model call or tool call takes long: the pull is an ordinary `for` over a
\* synchronous generator, so the event loop's thread is inside it
SlowStep(t) ==
    /\ busy = None
    /\ pc[t] \in {"remember", "chat_node", "tools"}
    /\ pending[t] = <<>>
    /\ resuming[t] = <<>>
    /\ busy' = t
    /\ UNCHANGED <<index, agentVars, docVars, routerVars>>
    /\ UNCHANGED <<pc, turn, ctx, msgs, pending, resuming, chunks, events, checkpoint, store,
                   memoryReads, generation_started, turns, toolSteps, nodes, memory,
                   faults, ragReads, log, aborted, overlapped>>

NextBlocking == Step(ConcurrentEnv) \/ \E t \in Tasks : SlowStep(t)
SpecBlocking == InitConfigured /\ [][NextBlocking]_vars

NextStream == Step(StreamEnv)
SpecStream == InitConfigured /\ [][NextStream]_vars

\* a call of get_chatbot_agent, as the lifespan's startup makes it
GetChatbotAgent(outcome) ==
    /\ Len(agentCalls) < MaxCalls
    /\ LET r == get_chatbot_agent(outcome)
       IN /\ created' = r.created
          /\ connections' = connections \o r.events
          /\ chatbot_agent' = r.global
          /\ agentCalls' = Append(agentCalls, GetCall(r.result))
    /\ UNCHANGED google_search
    /\ UNCHANGED <<pc, turn, ctx, msgs, pending, resuming, chunks, events, checkpoint, store,
                   memoryReads, generation_started, busy, index, turns, toolSteps,
                   nodes, memory, faults, ragReads, log, aborted, overlapped,
                   docVars, routerVars>>

\* cleanup_chatbot_agent: ChatbotAgent.cleanup and the reset of the global
CleanupChatbotAgent ==
    /\ Len(agentCalls) < MaxCalls
    /\ agentCalls' = Append(agentCalls, CleanupCall)
    /\ IF chatbot_agent # None
       THEN /\ connections' = connections \o
                   db_resources_exit(chatbot_agent, {"checkpointer", "store"})
            /\ chatbot_agent' = None
       ELSE UNCHANGED <<chatbot_agent, connections>>
    /\ UNCHANGED <<created, google_search>>
    /\ UNCHANGED <<pc, turn, ctx, msgs, pending, resuming, chunks, events, checkpoint, store,
                   memoryReads, generation_started, busy, index, turns, toolSteps,
                   nodes, memory, faults, ragReads, log, aborted, overlapped,
                   docVars, routerVars>>

NextLifecycle ==
    \/ \E outcome \in EnterOutcomes : GetChatbotAgent(outcome)
    \/ CleanupChatbotAgent
SpecLifecycle == InitConfigured /\ [][NextLifecycle]_vars

\* upload_document up to its `await file.read()`: the file type and the
\* duplicate check; a rejected upload (400) changes nothing
UploadDocument(D) ==
    /\ Len(jobs) < D.maxUploads
    /\ \E u \in D.users, f \in D.files :
         IF upload_status(u, f.filename) # 200
         THEN UNCHANGED jobs
         ELSE jobs' = Append(jobs, Job(TempPath(Len(jobs) + 1), u, f))
    /\ UNCHANGED <<documents, tmpfiles, index, found>>

\* upload_document after file.read(): the temporary file is written, the
\* row inserted and the background task added; when the commit raises the
\* handler answers 500 and the temporary file stays
UploadDocumentStore(j, D) ==
    /\ jobs[j].at = "reading"
    /\ tmpfiles' = tmpfiles \cup {jobs[j].pdf_path}
    /\ \E insertFails \in D.insertFails :
         IF insertFails
         THEN /\ jobs' = [jobs EXCEPT ![j] = [@ EXCEPT !.at = "rejected"]]
              /\ UNCHANGED documents
         ELSE LET id == Len(documents) + 1
              IN /\ documents' = Append(documents,
                                        Document(id, jobs[j].user_id, jobs[j].filename))
                 /\ jobs' = [jobs EXCEPT ![j] = [@ EXCEPT !.at = "queued",
                                                          !.doc_id = id]]
    /\ UNCHANGED <<index, found>>

\* process_pdf, steps 1 to 5, in the thread of a background task: load and
\* split the file, load the user's saved store or create one, embed and add
ProcessPdfAdd(j, D) ==
    /\ jobs[j].at = "queued"
    /\ \E embedFails \in D.embedFails :
         LET job == jobs[j]
             entries == DocChunks(job.pdf_path, job.user_id, job.doc_id, job.pages)
         IN jobs' = [jobs EXCEPT ![j] =
              IF job.pages = <<>>
              THEN [@ EXCEPT !.at = "raised",
                             !.error = "Error processing PDF: No content found in PDF"]
              ELSE IF embedFails
              THEN [@ EXCEPT !.at = "raised",
                             !.error = "Error processing PDF: embedding failed"]
              ELSE [@ EXCEPT !.at = "added",
                             !.loaded = index[IndexPath(job.user_id)].chunks,
                             !.vectorstore = process_pdf_add(job.user_id, entries)]]
    /\ UNCHANGED <<documents, tmpfiles, index, found>>

\* process_pdf, step 6, in the thread of a background task
ProcessPdfSave(j) ==
    /\ jobs[j].at = "added"
    /\ LET job == jobs[j]
           held == index[IndexPath(job.user_id)].chunks
       IN /\ index' = save_local(job.user_id, job.vectorstore)
          /\ jobs' = [jobs EXCEPT ![j] = [@ EXCEPT !.at = "saved",
                                                   !.stale = (held # job.loaded)]]
    /\ UNCHANGED <<documents, tmpfiles, found>>

\* str(e) of the exception a failing db.commit() raises
CommitError == "commit failed"

\* process_pdf_background after process_pdf returned: the row, if it is
\* still there, is set to completed and committed; when that commit raises,
\* the except branch sets the row to failed with the commit's error and
\* commits again, and when that raises too it only logs and the row stays
\* as it was; the finally block has not run yet
BackgroundCompleted(j, D) ==
    /\ jobs[j].at = "saved"
    /\ \E commitFails \in D.commitFails, retryFails \in D.commitFails :
         documents' = [documents EXCEPT ![jobs[j].doc_id] =
                          IF ~@.present THEN @
                          ELSE IF ~commitFails THEN [@ EXCEPT !.status = "completed"]
                          ELSE IF ~retryFails
                          THEN [@ EXCEPT !.status = "failed",
                                         !.error_message = CommitError]
                          ELSE @]
    /\ jobs' = [jobs EXCEPT ![j] = [@ EXCEPT !.at = "updated"]]
    /\ UNCHANGED <<tmpfiles, index, found>>

\* process_pdf_background after process_pdf raised: the row, if it is still
\* there, is set to failed with the error's text and committed; when that
\* commit raises the inner except branch only logs and the row stays as it
\* was; the finally block has not run yet
BackgroundFailed(j, D) ==
    /\ jobs[j].at = "raised"
    /\ \E commitFails \in D.commitFails :
         documents' = [documents EXCEPT ![jobs[j].doc_id] =
                          IF @.present /\ ~commitFails
                          THEN [@ EXCEPT !.status = "failed",
                                         !.error_message = jobs[j].error]
                          ELSE @]
    /\ jobs' = [jobs EXCEPT ![j] = [@ EXCEPT !.at = "handled"]]
    /\ UNCHANGED <<tmpfiles, index, found>>

\* the finally block of process_pdf_background, with which the task ends:
\* the temporary file is removed; when os.remove raises that is only
\* logged and the file stays
BackgroundFinally(j, D) ==
    /\ jobs[j].at \in {"updated", "handled"}
    /\ \E removeFails \in D.removeFails :
         tmpfiles' = IF removeFails THEN tmpfiles
                     ELSE tmpfiles \ {jobs[j].pdf_path}
    /\ jobs' = [jobs EXCEPT ![j] =
                  [@ EXCEPT !.at = IF @ = "updated" THEN "done" ELSE "failed"]]
    /\ UNCHANGED <<documents, index, found>>

\* delete_document: the row of the caller's document is deleted; nothing
\* else is touched
DeleteDocument(D) ==
    /\ \E u \in D.users, id \in 1..Len(documents) :
         /\ documents[id].present
         /\ documents[id].user_id = u
         /\ documents' = [documents EXCEPT ![id] = [@ EXCEPT !.present = FALSE]]
    /\ UNCHANGED <<jobs, tmpfiles, index, found>>

\* a search_my_documents call of a user's turn, taken by itself
SearchMyDocuments(D) ==
    /\ \E u \in D.users, query \in Queries :
         found' = [user_id |-> u, query |-> query,
                   text |-> search_my_documents("ok", u, query).text]
    /\ UNCHANGED <<documents, jobs, tmpfiles, index>>

DocStep(D) ==
    /\ UNCHANGED <<chatVars, agentVars, routerVars>>
    /\ \/ UploadDocument(D)
       \/ \E j \in 1..Len(jobs) : UploadDocumentStore(j, D)
       \/ \E j \in 1..Len(jobs) : ProcessPdfAdd(j, D)
       \/ \E j \in 1..Len(jobs) : ProcessPdfSave(j)
       \/ \E j \in 1..Len(jobs) : BackgroundCompleted(j, D)
       \/ \E j \in 1..Len(jobs) : BackgroundFailed(j, D)
       \/ \E j \in 1..Len(jobs) : BackgroundFinally(j, D)
       \/ DeleteDocument(D)

NextDocs == DocStep(DocsEnv)
SpecDocs == InitConfigured /\ [][NextDocs]_vars

NextStatus == DocStep(StatusEnv)
SpecStatus == InitConfigured /\ [][NextStatus]_vars

NextIngest == DocStep(IngestEnv)
SpecIngest == InitConfigured /\ [][NextIngest]_vars

\* one caller asks about documents while uploads are ingested in the
\* background
NextRag == Step(RagEnv) \/ DocStep(RagDocsEnv)
SpecRag == InitConfigured /\ [][NextRag]_vars

NextSearch ==
    \/ DocStep(SearchEnv)
    \/ SearchMyDocuments(SearchEnv) /\ UNCHANGED <<chatVars, agentVars, routerVars>>
SpecSearch == InitConfigured /\ [][NextSearch]_vars

\* POST /api/chat/stream, the handler: the thread logic, get_chatbot_agent
\* and the StreamingResponse; nothing of event_generator has run when it
\* returns.  A new thread is committed before get_chatbot_agent is awaited.
StreamRequest(t, E) ==
    /\ busy = None
    /\ pc[t] \in Ended
    /\ ~http[t].open
    /\ turns + Cardinality({o \in Tasks : pc[o] = "accepted"}) < E.maxTurns
    /\ Len(agentCalls) < MaxCalls
    /\ \E u \in E.users, thread_id \in RequestedThreads, outcome \in E.enterOutcomes :
         IF thread_id # None /\ find_thread(u, thread_id) = {}
         THEN /\ http' = [http EXCEPT ![t] = Response(404, u, thread_id, <<>>)]
              /\ UNCHANGED <<chatVars, threads, agentVars>>
         ELSE LET id == IF thread_id # None THEN thread_id ELSE Len(threads) + 1
                  rows == IF thread_id # None THEN threads
                          ELSE Append(threads, Thread(u))
                  r == get_chatbot_agent(outcome)
              IN /\ thread_id = None => Len(threads) < Cardinality(Threads)
                 /\ threads' = rows
                 /\ created' = r.created
                 /\ connections' = connections \o r.events
                 /\ chatbot_agent' = r.global
                 /\ agentCalls' = Append(agentCalls, GetCall(r.result))
                 /\ UNCHANGED google_search
                 /\ IF r.result = RaisedResult
                    THEN /\ http' = [http EXCEPT ![t] =
                                        Response(500, u, id, rows[id].title)]
                         /\ UNCHANGED chatVars
                    ELSE /\ http' = [http EXCEPT ![t] =
                                        Response(200, u, id, rows[id].title)]
                         /\ pc' = [pc EXCEPT ![t] = "accepted"]
                         /\ UNCHANGED <<turn, ctx, msgs, pending, resuming, chunks,
                                        events, checkpoint, store, memoryReads,
                                        generation_started, busy, turns, toolSteps,
                                        nodes, memory, faults, ragReads, log,
                                        aborted, overlapped>>
    /\ UNCHANGED <<index, docVars, fetched>>

\* the server starts to iterate the body of the response: event_generator
\* calls chat_stream for the caller and the thread and forwards its first
\* chunk
StreamBody(t, E) ==
    /\ pc[t] = "accepted"
    /\ StartTurnOn(t, E, http[t].user_id, http[t].thread_id)
    /\ UNCHANGED <<index, agentVars, docVars, routerVars>>

\* the server pulls after the completion signal: event_generator ends and
\* its finally block runs
StreamEnd(t) ==
    /\ pc[t] \in {"done", "error"}
    /\ http[t].open
    /\ threads' = thread_after_stream(t)
    /\ http' = [http EXCEPT ![t].open = FALSE]
    /\ UNCHANGED <<chatVars, index, agentVars, docVars, fetched>>

\* POST /api/chat/threads/new
CreateThread(E) ==
    /\ Len(threads) < Cardinality(Threads)
    /\ \E u \in E.users : threads' = Append(threads, Thread(u))
    /\ UNCHANGED <<chatVars, index, agentVars, docVars, http, fetched>>

\* GET /api/chat/threads/{thread_id}: 404 for a thread that is not the
\* caller's; else get_chatbot_agent is awaited, which may construct the
\* agent and whose exception the handler does not catch (500), and the
\* history under the caller's key is returned, which is empty when the
\* checkpoint cannot be read
GetThread(E) ==
    /\ \E u \in E.readers, thread_id \in Threads, outcome \in E.enterOutcomes,
          stateRaises \in E.stateRaises :
         IF find_thread(u, thread_id) = {}
         THEN /\ fetched' = ThreadResponse(404, thread_id, <<>>)
              /\ UNCHANGED agentVars
         ELSE LET r == get_chatbot_agent(outcome)
              IN /\ Len(agentCalls) < MaxCalls
                 /\ created' = r.created
                 /\ connections' = connections \o r.events
                 /\ chatbot_agent' = r.global
                 /\ agentCalls' = Append(agentCalls, GetCall(r.result))
                 /\ UNCHANGED google_search
                 /\ fetched' = IF r.result = RaisedResult
                               THEN ThreadResponse(500, thread_id, <<>>)
                               ELSE ThreadResponse(200, thread_id,
                                                   get_thread_history(u, thread_id, stateRaises))
    /\ UNCHANGED <<chatVars, index, docVars, threads, http>>

\* DELETE /api/chat/threads/{thread_id}: 404 for a thread that is not the
\* caller's, else the row is deleted
DeleteThread(E) ==
    /\ \E u \in E.users, thread_id \in Threads :
         IF find_thread(u, thread_id) = {}
         THEN UNCHANGED threads
         ELSE threads' = [threads EXCEPT ![thread_id].present = FALSE]
    /\ UNCHANGED <<chatVars, index, agentVars, docVars, http, fetched>>

\* PATCH /api/chat/threads/{thread_id}: 404 for a thread that is not the
\* caller's, else the row gets the title
UpdateThreadTitle(E) ==
    /\ \E u \in E.users, thread_id \in Threads, title \in Titles :
         IF find_thread(u, thread_id) = {}
         THEN UNCHANGED threads
         ELSE threads' = [threads EXCEPT ![thread_id].title = title]
    /\ UNCHANGED <<chatVars, index, agentVars, docVars, http, fetched>>

\* POST /api/chat/, the legacy endpoint: a missing thread is only logged, a
\* request without thread id creates a thread; the generator it answers
\* with calls chat_stream on the module `chatbot`, which has no such
\* attribute, so no turn runs
Chat(E) ==
    /\ \E u \in E.users, thread_id \in RequestedThreads :
         IF thread_id # None
         THEN UNCHANGED threads
         ELSE /\ Len(threads) < Cardinality(Threads)
              /\ threads' = Append(threads, Thread(u))
    /\ UNCHANGED <<chatVars, index, agentVars, docVars, http, fetched>>

NextRouter ==
    \/ \E t \in RouterEnv.tasks :
          \/ StreamRequest(t, RouterEnv)
          \/ StreamBody(t, RouterEnv)
          \/ Run(t, RouterEnv) /\ UNCHANGED <<index, agentVars, docVars>>
          \/ StreamEnd(t)
    \/ CreateThread(RouterEnv)
    \/ GetThread(RouterEnv)
    \/ DeleteThread(RouterEnv)
    \/ UpdateThreadTitle(RouterEnv)
    \/ Chat(RouterEnv)
SpecRouter == InitConfigured /\ [][NextRouter]_vars

\* ================================================================ claims
TypeCount(cs, type) == Cardinality({i \in 1..Len(cs) : cs[i].type = type})

\* the texts of the facts a decision marks as new, in the decision's order
RECURSIVE NewTexts(_)
NewTexts(mems) ==
    IF mems = <<>> THEN <<>>
    ELSE (IF Head(mems).is_new THEN <<Head(mems).text>> ELSE <<>>)
         \o NewTexts(Tail(mems))

\* a is b with some elements left out
RECURSIVE IsSubsequence(_, _)
IsSubsequence(a, b) ==
    IF a = <<>> THEN TRUE
    ELSE IF b = <<>> THEN FALSE
    ELSE IF Head(a) = Head(b) THEN IsSubsequence(Tail(a), Tail(b))
    ELSE IsSubsequence(a, Tail(b))

\* the entries get_thread_history is said to return for the logged turns
RECURSIVE TurnPairs(_)
TurnPairs(l) ==
    IF l = <<>> THEN <<>>
    ELSE <<[role |-> "user", content |-> Head(l)[1]],
           [role |-> "assistant", content |-> Head(l)[2]]>> \o TurnPairs(Tail(l))

\* START, remember, chat_node, then tools and chat_node in alternation
NodeOrder(s) ==
    \A i \in 1..Len(s) :
        s[i] = (CASE i = 1 -> "START"
                  [] i = 2 -> "remember"
                  [] i > 2 /\ i % 2 = 1 -> "chat_node"
                  [] OTHER -> "tools")

\* C1: in every turn the executed nodes are START, remember (once),
\* chat_node, then zero or more (tools, chat_node); the terminal state is
\* entered from chat_node only, remember runs only right after START, so
\* never after tools and never after chat_node.
C1_NodeSequence ==
    \A t \in Tasks :
        /\ NodeOrder(nodes[t])
        /\ pc[t] = "remember" => nodes[t] = <<"START">>
        /\ pc[t] = "tools" => Last(nodes[t]) = "chat_node"
        /\ pc[t] \in {"END", "done"} =>
              Len(nodes[t]) >= 3 /\ Last(nodes[t]) = "chat_node"

C1_Witness ==
    \E t \in Tasks :
        /\ pc[t] = "done"
        /\ nodes[t] = <<"START", "remember", "chat_node", "tools", "chat_node",
                        "tools", "chat_node">>

\* C2: after N successful turns on a thread (none failed, cancelled or
\* overlapping), get_thread_history returns the 2N entries user, assistant,
\* ... holding the turn inputs and final answers in order.
C2_HistoryIsTurnPairs ==
    \A u \in Users, th \in Threads :
        LET k == CheckpointKey(u, th)
        IN (/\ ~aborted[k]
            /\ ~overlapped[k]
            /\ \A t \in Tasks : pc[t] \in Running => KeyOf(t) # k)
           => get_thread_history(u, th, FALSE) = TurnPairs(log[k])

\* C3: when the model call of chat_node raised, the checkpoint of the thread
\* holds no assistant message produced by that turn.
C3_NoAssistantMessageAfterGenerationFault ==
    \A t \in Tasks :
        (pc[t] \in Failing /\ nodes[t] # <<>> /\ Last(nodes[t]) = "chat_node")
        => LET saved == checkpoint[KeyOf(t)]
           IN \A i \in (turn[t].base + 1)..Len(saved) : saved[i].type # "ai"

\* C4: a turn whose graph run let an exception escape yields exactly one
\* error chunk, as its last chunk; every other turn yields none.
C4_OneErrorChunk ==
    \A t \in Tasks :
        IF pc[t] \in Failing
        THEN /\ TypeCount(chunks[t], "error") = 1
             /\ Last(chunks[t]).type = "error"
        ELSE TypeCount(chunks[t], "error") = 0

C4_Witness ==
    \E t \in Tasks :
        /\ pc[t] = "error"
        /\ Last(nodes[t]) = "chat_node"
        /\ TypeCount(chunks[t], "tool_complete") = 1

\* C5: no stream holds a content chunk followed by an error chunk.
C5_NoContentBeforeError ==
    \A t \in Tasks :
        \A i, j \in 1..Len(chunks[t]) :
            (i < j /\ chunks[t][j].type = "error") => chunks[t][i].type # "content"

\* C6: when a step of remember_node failed (reading the facts, the
\* extractor, a store.put), no fact was stored and the node did not raise:
\* the turn goes on to chat_node without an error chunk.
C6_MemoryFailureIsolated ==
    \A t \in Tasks :
        (nodes[t] # <<>> /\ Last(nodes[t]) = "remember" /\ memory[t].failed # {})
        => /\ memory[t].puts = <<>>
           /\ ~memory[t].raised
           /\ pc[t] \notin Failing
           /\ TypeCount(chunks[t], "error") = 0

\* C7: the facts remember_node appends to the store are facts the decision
\* marks is_new, in the decision's order; a fact with is_new = false is
\* never put.
C7_OnlyNewFactsWritten ==
    [][\A t \in Tasks :
         (pc[t] = "remember" /\ pc'[t] # "remember")
         => LET u == Namespace(turn[t].user)
                put == SubSeq(store'[u], Len(store[u]) + 1, Len(store'[u]))
            IN /\ Len(store'[u]) >= Len(store[u])
               /\ SubSeq(store'[u], 1, Len(store[u])) = store[u]
               /\ put = memory'[t].puts
               /\ IsSubsequence(put, NewTexts(memory'[t].decision.memories))]_vars

C7_Witness ==
    \E t \in Tasks :
        /\ nodes[t] # <<>> /\ Last(nodes[t]) = "remember"
        /\ memory[t].decision.memories =
              <<MemoryItem("f1", FALSE), MemoryItem("f2", TRUE)>>
        /\ memory[t].puts = <<"f2">>
        /\ store[Namespace(turn[t].user)] # <<>>
        /\ Last(store[Namespace(turn[t].user)]) = "f2"

\* C8: after a tools step the turn is at chat_node (or was cancelled there),
\* no error chunk was yielded, every requested tool has its tool message in
\* request order, and the message of a tool that faulted is the text by
\* which the tool reports the failure: for calculator "Error: " and the
\* text of the exception, whatever its class; google_web_search without a
\* wrapper answers that it is not configured.
C8_ToolFaultIsText ==
    \A t \in Tasks :
        (nodes[t] # <<>> /\ Last(nodes[t]) = "tools")
        => LET n == Len(faults[t])
               ms == msgs[t]
           IN /\ pc[t] \in {"chat_node", "cancelled"}
              /\ TypeCount(chunks[t], "error") = 0
              /\ Len(ms) > n
              /\ ms[Len(ms) - n].type = "ai"
              /\ Len(ms[Len(ms) - n].tool_calls) = n
              /\ \A i \in 1..n :
                   LET m == ms[Len(ms) - n + i]
                   IN /\ m.type = "tool"
                      /\ m.name = ms[Len(ms) - n].tool_calls[i]
                      /\ faults[t][i] => m.content \in FailureTexts
                      /\ (faults[t][i] /\ m.name = "calculator")
                         => (Len(m.content) = 2 /\ m.content[1] = "Error: ")
                      /\ (m.name = "google_web_search" /\ google_search = None)
                         => m.content = <<"Web search not configured">>

\* both tools of a step faulted, the calculator on an expression that does
\* not compile, and the turn is back at chat_node
C8_Witness ==
    \E t \in Tasks :
        /\ nodes[t] # <<>> /\ Last(nodes[t]) = "tools"
        /\ pc[t] = "chat_node"
        /\ Len(faults[t]) = 2
        /\ faults[t][1] /\ faults[t][2]
        /\ msgs[t][Len(msgs[t]) - 1].name = "search_my_documents"
        /\ msgs[t][Len(msgs[t]) - 1].content = <<"Error searching documents: ">>
        /\ Last(msgs[t]).name = "calculator"
        /\ Last(msgs[t]).content = <<"Error: ", "invalid syntax (<string>, line 1)">>

\* C9: once a turn has ended (completed, failed or cancelled) the user
\* binding of its context reads back as None.
C9_BindingClearedAfterTurn ==
    \A t \in Tasks :
        pc[t] \in {"done", "error", "cancelled"}
        => get_current_user_id(ctx, t) = None

\* C10: every search_my_documents call of a turn reads the user id of that
\* turn, whatever the other tasks have bound meanwhile.
C10_RetrievalReadsOwnUser ==
    \A t \in Tasks :
        \A i \in 1..Len(ragReads[t]) : ragReads[t][i] = turn[t].user

C10_Witness ==
    \E a, b \in Tasks :
        /\ a # b
        /\ pc[a] \in Running /\ pc[b] \in Running
        /\ turn[a].user # turn[b].user
        /\ ragReads[a] # <<>> /\ ragReads[b] # <<>>

\* C11: chat_stream and get_thread_history build the same key from
\* (user_id, thread_id), the key holds the user id and two different pairs
\* never get the same key; the messages get_thread_history reads for a
\* pair change only in a step taken while a turn for that very pair is
\* running, so a turn for (U1, T) never appends to what (U2, T) reads.
Ids == 1..MaxId
KeyInjective ==
    \A u1 \in Ids, t1 \in Ids :
        /\ CheckpointKey(u1, t1) = HistoryKey(u1, t1)
        /\ SubSeq(CheckpointKey(u1, t1), 2, 1 + Len(Digits(u1))) = Digits(u1)
        /\ \A u2 \in Ids, t2 \in Ids :
              CheckpointKey(u1, t1) = CheckpointKey(u2, t2) => (u1 = u2 /\ t1 = t2)
HistoryTouchedByOwnTurn ==
    \A u \in Users, th \in Threads :
        checkpoint'[HistoryKey(u, th)] # checkpoint[HistoryKey(u, th)]
        => \E t \in Tasks :
              pc[t] \in Running /\ turn[t].user = u /\ turn[t].thread = th
C11_CheckpointKeyIsolatesUsers ==
    []KeyInjective /\ [][HistoryTouchedByOwnTurn]_vars

C11_Witness ==
    \E a, b \in Tasks :
        /\ turn[a].user = 1 /\ turn[b].user = 2
        /\ turn[a].thread = turn[b].thread
        /\ pc[a] = "done" /\ pc[b] \in Running
        /\ Len(get_thread_history(1, turn[a].thread, FALSE)) = 3
        /\ Len(get_thread_history(2, turn[b].thread, FALSE)) = 1

\* C12: in the chunks of one turn the status chunk of step "generation" and
\* status "started" occurs at most once, and every occurrence is before
\* every content chunk.
GenerationStarted(cs) ==
    {i \in 1..Len(cs) : cs[i] = StatusChunk("generation", "started")}
ContentAt(cs) == {i \in 1..Len(cs) : cs[i].type = "content"}
C12_GenerationStartedOnceBeforeContent ==
    \A t \in Tasks :
        /\ Cardinality(GenerationStarted(chunks[t])) <= 1
        /\ \A g \in GenerationStarted(chunks[t]), c \in ContentAt(chunks[t]) : g < c

\* the tools requested by the messages of a turn, in request order
RECURSIVE RequestedTools(_)
RequestedTools(ms) ==
    IF ms = <<>> THEN <<>> ELSE Head(ms).tool_calls \o RequestedTools(Tail(ms))
TurnMessages(t) == SubSeq(msgs[t], turn[t].base + 1, Len(msgs[t]))
ChunksAt(cs, type) == {i \in 1..Len(cs) : cs[i].type = type}

\* C13: a completed turn in which the model requested exactly one tool has
\* exactly one tool_start and exactly one tool_complete chunk, both naming
\* that tool, and every content chunk comes after the tool_complete.
C13_OneToolTurnChunks ==
    \A t \in Tasks :
        (pc[t] = "done" /\ Len(RequestedTools(TurnMessages(t))) = 1)
        => LET cs == chunks[t]
               tool == RequestedTools(TurnMessages(t))[1]
           IN /\ Cardinality(ChunksAt(cs, "tool_start")) = 1
              /\ Cardinality(ChunksAt(cs, "tool_complete")) = 1
              /\ \A i \in ChunksAt(cs, "tool_start") \cup ChunksAt(cs, "tool_complete") :
                    cs[i].tool = tool
              /\ \A c \in ChunksAt(cs, "content"), d \in ChunksAt(cs, "tool_complete") :
                    d < c

\* C14: in the chunks of every turn each tool_complete chunk comes after a
\* tool_start chunk naming the same tool (in fact right after it).
C14_ToolStartBeforeComplete ==
    \A t \in Tasks :
        \A i \in ChunksAt(chunks[t], "tool_complete") :
            /\ \E j \in ChunksAt(chunks[t], "tool_start") :
                  j < i /\ chunks[t][j].tool = chunks[t][i].tool
            /\ chunks[t][i - 1] = ToolStartChunk(chunks[t][i].tool)

C14_Witness ==
    \E t \in Tasks :
        \E i, j \in ChunksAt(chunks[t], "tool_complete") :
            /\ i < j
            /\ chunks[t][i].tool = "calculator"
            /\ chunks[t][j].tool = "search_my_documents"

\* C15: the events of a response read to its end are the turn's chunks, one
\* event each, followed by the end-of-stream marker as the last event, both
\* for a turn that succeeded and for one that ended with an error chunk; a
\* response still being produced holds no marker.
C15_StreamEndsWithDone ==
    \A t \in Tasks :
        /\ pc[t] \in {"done", "error"}
           => /\ events[t] = Append(SSEs(chunks[t]), DoneEvent)
              /\ \A i \in 1..Len(chunks[t]) : SSE(chunks[t][i]) # DoneEvent
        /\ pc[t] \in Running \cup {"failing"}
           => \A i \in 1..Len(events[t]) : events[t][i] # DoneEvent

C15_Witness ==
    \E t \in Tasks :
        /\ pc[t] = "error"
        /\ Len(events[t]) >= 4
        /\ events[t][Len(events[t]) - 1] = SSE(ErrorChunk)
        /\ Last(events[t]) = DoneEvent

\* C16: after the consumer disconnected, the checkpoint of the turn's thread
\* holds nothing of the turn or the whole of it: the messages saved since
\* the turn began are none, or end with the final answer (an assistant
\* message requesting no tool).
C16_CancelLeavesNoPartialTurn ==
    \A t \in Tasks :
        pc[t] = "cancelled"
        => LET saved == checkpoint[KeyOf(t)]
               new == SubSeq(saved, turn[t].base + 1, Len(saved))
           IN \/ new = <<>>
              \/ Last(new).type = "ai" /\ Last(new).tool_calls = <<>>

\* what a task can do next under the concurrent environment
TaskStep(t) ==
    \/ GraphStart(t)
    \/ RememberNode(t, ConcurrentEnv)
    \/ ChatNode(t, ConcurrentEnv)
    \/ ToolsNode(t, ConcurrentEnv)
    \/ Deliver(t)
    \/ Resume(t)
    \/ Finish(t)

\* C17: while a turn is inside a slow graph step, every other running turn
\* for a different (user, thread) pair can take its next step; and a turn
\* whose consumer has not yet read the chunks at hand can run its next
\* graph node.
C17_TurnsDoNotBlockEachOther ==
    \A a \in Tasks :
        /\ \A b \in Tasks \ {a} :
              (busy = a /\ pc[b] \in Running /\ KeyOf(a) # KeyOf(b))
              => ENABLED TaskStep(b)
        /\ (busy = None /\ pc[a] \in {"chat_node", "tools"} /\ pending[a] # <<>>)
           => ENABLED (ChatNode(a, ConcurrentEnv) \/ ToolsNode(a, ConcurrentEnv))

\* C18: after a response generation whose message requests tools, the tools
\* node runs, the next messages of the thread are the tool messages of the
\* requested tools in request order, and then response generation runs
\* again on the thread that holds them; after a message requesting no tool
\* the turn is at the terminal state and that message is the last one.
C18_ToolLoopTransition ==
    \A t \in Tasks :
        pc[t] \notin {"idle", "started", "cancelled"}
        => LET ms == msgs[t]
               first == turn[t].base + 1
               requests == {i \in first..Len(ms) :
                               ms[i].type = "ai" /\ ms[i].tool_calls # <<>>}
               answers == {i \in first..Len(ms) :
                               ms[i].type = "ai" /\ ms[i].tool_calls = <<>>}
               ran == Len(SelectSeq(nodes[t], LAMBDA x : x = "tools"))
           IN /\ \A i \in requests :
                    LET n == Len(ms[i].tool_calls)
                    IN IF i = Len(ms)
                       THEN pc[t] = "tools" /\ Last(nodes[t]) = "chat_node"
                       ELSE /\ Len(ms) >= i + n
                            /\ \A j \in 1..n :
                                  /\ ms[i + j].type = "tool"
                                  /\ ms[i + j].name = ms[i].tool_calls[j]
                            /\ IF i + n = Len(ms)
                               THEN \/ Last(nodes[t]) = "tools" /\ pc[t] = "chat_node"
                                    \/ Last(nodes[t]) = "chat_node" /\ pc[t] \in Failing
                               ELSE ms[i + n + 1].type = "ai"
              /\ \A i \in answers :
                    i = Len(ms) /\ pc[t] \in {"END", "done"}
                    /\ Last(nodes[t]) = "chat_node"
              /\ ran = Cardinality(requests \ {Len(ms)})
              /\ Cardinality({i \in first..Len(ms) : ms[i].type = "tool"})
                    = Len(RequestedTools(SubSeq(ms, first, Len(ms))))
                      - (IF Len(ms) \in requests THEN Len(ms[Len(ms)].tool_calls) ELSE 0)

C18_Witness ==
    \E t \in Tasks :
        /\ pc[t] = "done"
        /\ Len(msgs[t]) = 5
        /\ msgs[t][2].tool_calls = <<"calculator", "search_my_documents">>
        /\ msgs[t][3].name = "calculator"
        /\ msgs[t][4].name = "search_my_documents"
        /\ msgs[t][5].type = "ai"

\* C19: the nodes of a turn of user U search only the namespace
\* ("user", U, "details"), which differs from every other user's; the facts
\* under a namespace change only in the remember step of a turn of its own
\* user, and then by facts added after the stored ones, none replaced or
\* removed; so turns of other users leave the facts visible to U unchanged.
NamespaceInjective ==
    \A u1 \in Ids, u2 \in Ids : Namespace(u1) = Namespace(u2) => u1 = u2
ReadsOwnNamespace ==
    \A t \in Tasks : memoryReads[t] \subseteq {Namespace(turn[t].user)}
FactsAppendOnlyByOwner ==
    \A u \in Users :
        store'[Namespace(u)] # store[Namespace(u)]
        => /\ \E t \in Tasks :
                 pc[t] = "remember" /\ pc'[t] # "remember" /\ turn[t].user = u
           /\ Len(store'[Namespace(u)]) > Len(store[Namespace(u)])
           /\ SubSeq(store'[Namespace(u)], 1, Len(store[Namespace(u)]))
                 = store[Namespace(u)]
C19_MemoryIsolatedAppendOnly ==
    [](NamespaceInjective /\ ReadsOwnNamespace) /\ [][FactsAppendOnlyByOwner]_vars

C19_Witness ==
    \E t \in Tasks :
        /\ turn[t].user = 2
        /\ pc[t] = "done"
        /\ memoryReads[t] = {Namespace(2)}
        /\ store[Namespace(1)] = <<"f1", "f2">>
        /\ store[Namespace(2)] = <<"f2">>

\* C20: a search_my_documents call made while the caller has no index, and
\* in which nothing raised, has the upload guidance as its tool message,
\* which is neither an error text nor the no-match text; and
\* query_documents for a user without an index returns the empty list.
SearchWithoutIndexGuides ==
    \A t \in Tasks :
        (pc[t] = "tools" /\ pc'[t] = "chat_node"
         /\ ~get_vectorstore(get_current_user_id(ctx, t), FALSE).loaded)
        => LET calls == Last(msgs[t]).tool_calls
           IN \A i \in 1..Len(calls) :
                (calls[i] = "search_my_documents" /\ ~faults'[t][i])
                => /\ msgs'[t][Len(msgs[t]) + i].content = GuidanceText
                   /\ msgs'[t][Len(msgs[t]) + i].type = "tool"
QueryWithoutIndexIsEmpty ==
    /\ GuidanceText \notin FailureTexts \cup {NoMatchText}
    /\ \A u \in Users \cup {None} :
          ~get_vectorstore(u, FALSE).loaded
          => \A loadRaises, searchRaises \in BOOLEAN :
                query_documents(u, TurnQuery, loadRaises, searchRaises, 4) = <<>>
C20_NoIndexGivesGuidance ==
    []QueryWithoutIndexIsEmpty /\ [][SearchWithoutIndexGuides]_vars

C20_Witness ==
    \E t \in Tasks :
        /\ turn[t].user = 1
        /\ ~get_vectorstore(1, FALSE).loaded
        /\ Len(jobs) = 1 /\ jobs[1].user_id = 1 /\ jobs[1].at = "added"
        /\ nodes[t] # <<>> /\ Last(nodes[t]) = "tools"
        /\ Last(msgs[t]).name = "search_my_documents"
        /\ Last(msgs[t]).content = GuidanceText

\* the expression "f(l op r)" on two ints
OnInts(f, l, op, r) == Call(f, BinOp(op, Num(l), Num(r)))

\* what calculator returns for the expressions of the model: a text, and
\* never an exception; the text is "Error: " and str(e) when the evaluation
\* raised, whatever the class, and "Result: " and the value otherwise.  The
\* texts given are those of the Python function.
CalculatorReturnsText ==
    LET floor == <<"m", "a", "t", "h", ".", "f", "l", "o", "o", "r">>
        trunc == <<"m", "a", "t", "h", ".", "t", "r", "u", "n", "c">>
        round == <<"r", "o", "u", "n", "d">>
        says(x, head, rest) == calculator(x).text = <<head, rest>>
    IN /\ \A x \in Expressions :
            LET r == calculator(x)
            IN /\ ~r.raised
               /\ Len(r.text) = 2
               /\ r.text[1] = (IF eval(x).exc # "" THEN "Error: " ELSE "Result: ")
               /\ r.text[2] # ""
               /\ eval(x).exc # "" => r.text[2] = eval(x).err
       /\ { eval(x).exc : x \in Expressions }
             = {"", "AttributeError", "NameError", "SyntaxError", "TypeError",
                "ValueError", "ZeroDivisionError"}
       /\ says(SqrtExample, "Result: ", "12")
       /\ says(DivisionByZero, "Error: ", "division by zero")
       /\ says(BinOp("+", Name(<<"x">>), Num(1)), "Error: ", "name 'x' is not defined")
       /\ says(BinOp("/", Num(7), Num(2)), "Result: ", "3.5")
       /\ says(BinOp("/", Num(2), Num(1)), "Result: ", "2")
       /\ says(BinOp("/", Num(2), Num(7)), "Result: ", "0.2857142857")
       /\ says(BinOp("/", Num(2), Num(-3)), "Result: ", "-0.6666666667")
       /\ says(BinOp("**", Num(7), Num(-3)), "Result: ", "0.0029154519")
       /\ says(BinOp("**", Num(0), Num(-3)), "Error: ",
               "0.0 cannot be raised to a negative power")
       /\ says(OnInts(floor, 7, "/", 2), "Result: ", "3")
       /\ says(OnInts(floor, -7, "/", 2), "Result: ", "-4")
       /\ says(OnInts(trunc, -7, "/", 2), "Result: ", "-3")
       /\ says(OnInts(floor, 1, "/", -3), "Result: ", "-1")
       /\ says(OnInts(trunc, 1, "/", -3), "Result: ", "0")
       /\ says(OnInts(round, 1, "/", 2), "Result: ", "0")
       /\ says(OnInts(round, 7, "/", 2), "Result: ", "4")
       /\ says(OnInts(round, -3, "/", 2), "Result: ", "-2")
       /\ says(OnInts(round, 2, "/", 3), "Result: ", "1")
       /\ says(Call(floor, BinOp("*", BinOp("/", Num(1), Num(3)), Num(10))),
               "Result: ", "3")
       /\ says(Call(round, BinOp("*", BinOp("/", Num(2), Num(3)), Num(4))),
               "Result: ", "3")
       /\ says(Call(trunc, BinOp("-", Num(0), BinOp("*", BinOp("/", Num(1), Num(3)),
                                                   Num(7)))),
               "Result: ", "-2")
       /\ says(Call(floor, Name(<<"e">>)), "Result: ", "2")
       /\ says(Call(floor, Name(<<"a", "b", "s">>)), "Error: ",
               "must be real number, not builtin_function_or_method")
       /\ says(OnInts(<<"m", "i", "n">>, 1, "+", 2), "Error: ",
               "'int' object is not iterable")
       /\ says(Missing, "Error: ", "invalid syntax (<string>, line 0)")
       /\ says(Name(<<"n", "o", "t">>), "Error: ", "invalid syntax (<string>, line 1)")
       /\ says(Name(<<"a", "b", "s", ".", "i", "f">>), "Error: ",
               "invalid syntax (<string>, line 1)")
       /\ says(Name(<<"e", "l", "s", "e">>), "Error: ",
               "module 'math' has no attribute 'elsmath'")
       /\ says(BinOp("+", Num(2), Missing), "Error: ",
               "invalid syntax (<string>, line 1)")
       /\ says(BinOp("-", Missing, Num(7)), "Result: ", "-7")
       /\ says(Name(<<"m", "a", "t", "h", ".", "x">>), "Error: ",
               "module 'math' has no attribute 'x'")
       /\ says(Call(<<"l", "n">>, Num(0)), "Error: ", "math domain error")
CalculatorTexts == { calculator(x).text : x \in Expressions }

\* C25: calculator returns a text for every expression and never raises;
\* "sqrt(16) + 2**3" gives "Result: 12", the integral float shown as an int;
\* an expression whose evaluation fails ("1/0", a name outside safe_dict)
\* gives a text that starts with "Error: "; and in a turn the text becomes
\* the calculator's tool message and the turn goes on to chat_node.
C25_CalculatorAlwaysReturnsText ==
    /\ CalculatorReturnsText
    /\ \A t \in Tasks :
         /\ \A i \in DOMAIN msgs[t] :
              (msgs[t][i].type = "tool" /\ msgs[t][i].name = "calculator")
              => /\ msgs[t][i].content \in CalculatorTexts
                 /\ msgs[t][i].content[1] \in {"Result: ", "Error: "}
         /\ (/\ nodes[t] # <<>> /\ Last(nodes[t]) = "tools"
             /\ Last(msgs[t]).type = "tool" /\ Last(msgs[t]).name = "calculator")
            => /\ pc[t] \in {"chat_node", "cancelled"}
               /\ Last(faults[t]) => Last(msgs[t]).content[1] = "Error: "
               /\ ~Last(faults[t]) => Last(msgs[t]).content[1] = "Result: "

\* a turn went on after the calculator reported the NameError of a name
\* that is not in its dictionary
C25_Witness ==
    \E t \in Tasks :
        /\ nodes[t] # <<>> /\ Last(nodes[t]) = "tools"
        /\ pc[t] = "chat_node"
        /\ Last(msgs[t]).type = "tool" /\ Last(msgs[t]).name = "calculator"
        /\ Last(msgs[t]).content = <<"Error: ", "name 'x' is not defined">>

\* C26: every turn that has yielded a content chunk has yielded the status
\* chunk of step "generation" and status "started" before its first content
\* chunk, whatever other turns did to the shared agent before or meanwhile.
C26_ContentPrecededByGenerationStarted ==
    \A t \in Tasks :
        \A c \in ContentAt(chunks[t]) :
            (\A d \in ContentAt(chunks[t]) : c <= d)
            => \E g \in GenerationStarted(chunks[t]) : g < c

\* C28: a remember step changes the store only when the decision it acted on
\* has should_write = TRUE and a non-empty list of memories; with
\* should_write = FALSE nothing is put even if facts are marked is_new, and
\* when the extraction backend fails the decision is the fallback
\* (should_write = FALSE, no memories) and nothing is put.
C28_WritesOnlyWhenDecided ==
    [][\A t \in Tasks :
         (pc[t] = "remember" /\ pc'[t] # "remember")
         => LET dec == memory'[t].decision
            IN /\ store' # store => (dec.should_write /\ dec.memories # <<>>)
               /\ ~dec.should_write => (store' = store /\ memory'[t].puts = <<>>)
               /\ "extract" \in memory'[t].failed
                  => /\ dec = MemoryDecision(FALSE, <<>>)
                     /\ store' = store]_vars

C28_Witness ==
    \E t \in Tasks :
        /\ nodes[t] # <<>> /\ Last(nodes[t]) = "remember"
        /\ memory[t].decision = MemoryDecision(FALSE, <<MemoryItem("f1", TRUE)>>)
        /\ memory[t].puts = <<>>
        /\ turns = 1
        /\ \A ns \in DOMAIN store : store[ns] = <<>>

\* the connection events of one kind on one context manager
EventCount(cm, event) ==
    Cardinality({i \in 1..Len(connections) :
                    connections[i].cm = cm /\ connections[i].event = event})
\* the agents returned by the get_chatbot_agent calls so far
ReturnedAgents ==
    {agentCalls[i].result : i \in {j \in 1..Len(agentCalls) :
        agentCalls[j].call = "get_chatbot_agent" /\ agentCalls[j].result # RaisedResult}}

\* C24: over any sequence of get_chatbot_agent and cleanup_chatbot_agent
\* calls each durable-store connection is acquired at most once, and exactly
\* once when an agent was returned; it is released at most once and never
\* more often than acquired; and all get_chatbot_agent calls return the same
\* agent.
C24_AcquiredOnceReleasedOnce ==
    /\ Cardinality(ReturnedAgents) <= 1
    /\ \A cm \in {"checkpointer", "store"} :
         /\ EventCount(cm, "open") <= 1
         /\ EventCount(cm, "close") <= EventCount(cm, "open")
         /\ ReturnedAgents # {} => EventCount(cm, "open") = 1

\* the stored chunks of a user that are nearer to the query than score
Nearer(user_id, query, score) ==
    LET held == get_vectorstore(user_id, FALSE).chunks
    IN {i \in 1..Len(held) : Score(held[i], query) < score}

\* what a search of user_id for query lists, given the index as it is
ListsTopChunks(user_id, query) ==
    LET held == get_vectorstore(user_id, FALSE).chunks
        results == query_documents(user_id, query, FALSE, FALSE, 4)
        sections == Sections(results)
    IN /\ Len(sections) = (IF Len(held) < 4 THEN Len(held) ELSE 4)
       /\ \A i \in 1..Len(sections) :
            /\ \A j \in 1..Len(sections) :
                 i < j => sections[i].score <= sections[j].score
            /\ Cardinality(Nearer(user_id, query, sections[i].score)) < i
            /\ sections[i].content.len <= 400
            /\ results[i].content.len > 400
               => (sections[i].content.kept = 397 /\ sections[i].content.suffix = "...")
            /\ results[i].content.len <= 400
               => (sections[i].content.kept = results[i].content.len
                   /\ sections[i].content.suffix = "")
            /\ sections[i].page = results[i].metadata.page
            /\ sections[i].source = documents[results[i].metadata.doc_id].filename

\* C21: a search_my_documents call of a user whose index exists lists at
\* most 4 chunks, the nearest ones, most similar first, each with the
\* filename of the document it came from and its page, and with a content of
\* at most 400 characters (a longer one is cut to 397 characters and "...").
C21_SearchListsTopChunks ==
    [][(found' # found /\ get_vectorstore(found'.user_id, FALSE).loaded)
       => /\ ListsTopChunks(found'.user_id, found'.query)
          /\ found'.text =
               FoundText(query_documents(found'.user_id, found'.query, FALSE, FALSE, 4))]_vars

\* what does hold of the listed sections: at most 4, the nearest ones, of at
\* most 400 characters, and named after the temporary file of the upload
SectionsWithinLimits ==
    \A u \in Users, q \in Queries :
        get_vectorstore(u, FALSE).loaded
        => LET sections == Sections(query_documents(u, q, FALSE, FALSE, 4))
           IN /\ Len(sections) <= 4
              /\ \A i \in 1..Len(sections) :
                   /\ sections[i].content.len <= 400
                   /\ Cardinality(Nearer(u, q, sections[i].score)) < i
                   /\ sections[i].source = basename(TempPath(
                          query_documents(u, q, FALSE, FALSE, 4)[i].metadata.doc_id))

\* the jobs of a user whose process_pdf has saved
SavedJobs(user_id) ==
    {j \in 1..Len(jobs) :
        jobs[j].user_id = user_id /\ jobs[j].at \in {"saved", "updated", "done"}}

\* every user has a directory of their own, which exists once an ingest of
\* theirs has saved, holds only their chunks and is all their queries read
OneIndexPerUser ==
    /\ \A u, v \in Users : IndexPath(u) = IndexPath(v) => u = v
    /\ \A u \in Users :
         LET held == index[IndexPath(u)]
         IN /\ held.exists <=> SavedJobs(u) # {}
            /\ \A i \in 1..Len(held.chunks) : held.chunks[i].user_id = u
            /\ \A q \in Queries :
                 LET results == query_documents(u, q, FALSE, FALSE, 4)
                 IN \A i \in 1..Len(results) : results[i].metadata.user_id = u

\* a step changes the directory of a user only by the save of an ingest of
\* that user; deleting a document's row changes no directory
IndexChangedByOwnIngestOnly ==
    /\ \A u \in Users :
         index'[IndexPath(u)] # index[IndexPath(u)]
         => \E j \in 1..Len(jobs) :
               /\ jobs[j].user_id = u
               /\ jobs[j].at = "added" /\ jobs'[j].at = "saved"
    /\ (\E i \in 1..Len(documents) : documents[i].present /\ ~documents'[i].present)
       => index' = index

\* C22: there is one index per user, user_<id>, created by that user's first
\* ingest; process_pdf for a user changes only that user's index;
\* query_documents for a user returns only chunks ingested by that user; and
\* deleting a document's record leaves the index unchanged.
C22_OneIndexPerUser ==
    []OneIndexPerUser /\ [][IndexChangedByOwnIngestOnly]_vars

C22_Witness ==
    /\ Len(documents) = 2
    /\ documents[1].user_id = 1 /\ ~documents[1].present
    /\ documents[2].user_id = 2
    /\ index[IndexPath(2)].exists
    /\ \E i \in 1..Len(index[IndexPath(1)].chunks) :
          index[IndexPath(1)].chunks[i].doc_id = 1

\* the chunks a user's index holds of the content pages
EntriesOf(user_id, pages) ==
    LET held == index[IndexPath(user_id)].chunks
    IN {i \in 1..Len(held) :
          \E k \in 1..Len(pages) : held[i].body = pages[k].body}

\* the ingests of the content pages that saved for the user
IngestsOf(user_id, pages) == {j \in SavedJobs(user_id) : jobs[j].pages = pages}

\* C23: when the ingests of a user ran one after the other, the user's index
\* holds k * c entries of a content of c chunks that was ingested k times,
\* whatever it already held: a second ingest of the same content adds its
\* chunks again.
C23_ReingestAddsChunksAgain ==
    \A u \in Users :
        (\A j \in SavedJobs(u) : ~jobs[j].stale)
        => \A pages \in {PdfA, PdfB} :
              Cardinality(EntriesOf(u, pages))
                 = Cardinality(IngestsOf(u, pages)) * Len(pages)

C23_Witness ==
    \E u \in Users :
        /\ Cardinality(IngestsOf(u, PdfA)) = 2
        /\ \A j \in SavedJobs(u) : ~jobs[j].stale
        /\ Len(index[IndexPath(u)].chunks) = 2 * Len(PdfA)
        /\ \A j \in 1..Len(jobs) : jobs[j].at = "done"

\* the chunks the index of the job's user holds of the job's document
ChunksOfJob(j) ==
    LET held == index[IndexPath(jobs[j].user_id)].chunks
    IN {i \in 1..Len(held) : held[i].doc_id = jobs[j].doc_id}

\* C27: once two background ingests of different documents of the same user
\* have both completed successfully, however their steps interleaved, the
\* user's index holds all chunks of both documents.
C27_InterleavedIngestsKeepBoth ==
    \A j1, j2 \in 1..Len(jobs) :
        (/\ j1 # j2
         /\ jobs[j1].user_id = jobs[j2].user_id
         /\ jobs[j1].at = "done" /\ jobs[j2].at = "done")
        => /\ Cardinality(ChunksOfJob(j1)) = Len(jobs[j1].pages)
           /\ Cardinality(ChunksOfJob(j2)) = Len(jobs[j2].pages)

\* the row of a document whose background task has finished tells how
\* process_pdf ended, and the temporary file of a finished task is gone
StatusTellsOutcome ==
    \A i \in 1..Len(documents) :
        LET d == documents[i]
            job == jobs[CHOOSE j \in 1..Len(jobs) : jobs[j].doc_id = i]
        IN /\ Cardinality({j \in 1..Len(jobs) : jobs[j].doc_id = i}) = 1
           /\ d.status \in {"processing", "completed", "failed"}
           /\ job.at \in {"queued", "added", "saved", "raised"}
              => (d.status = "processing" /\ job.pdf_path \in tmpfiles)
           /\ job.at \in {"updated", "handled"} => job.pdf_path \in tmpfiles
           /\ job.at \in {"done", "failed"} => job.pdf_path \notin tmpfiles
           /\ (job.at = "done" /\ d.present)
              => (d.status = "completed" /\ d.error_message = "")
           /\ (job.at = "failed" /\ d.present)
              => (d.status = "failed" /\ d.error_message = job.error
                  /\ d.error_message # "")

\* a new row is 'processing', and a row that is 'completed' or 'failed'
\* keeps its status
StatusNeverBackToProcessing ==
    /\ Len(documents') > Len(documents)
       => documents'[Len(documents')].status = "processing"
    /\ \A i \in 1..Len(documents) :
         documents[i].status \in {"completed", "failed"}
         => documents'[i].status = documents[i].status

\* C30: a document's record starts as 'processing'; once its background task
\* has finished it is 'completed' if process_pdf succeeded and 'failed' with
\* an error message if it raised; it never goes from 'completed' or 'failed'
\* back to 'processing'; and the temporary file is removed on both paths.
C30_StatusFollowsBackgroundTask ==
    []StatusTellsOutcome /\ [][StatusNeverBackToProcessing]_vars

\* every turn runs for the owner of its thread, and only threads' owners
\* have messages in a checkpoint
TurnsRunOnOwnThreads ==
    /\ \A t \in Tasks :
         turn[t] # NoTurn
         => /\ turn[t].thread \in 1..Len(threads)
            /\ threads[turn[t].thread].user_id = turn[t].user
    /\ \A u \in Users, th \in Threads :
         checkpoint[CheckpointKey(u, th)] # <<>>
         => (th \in 1..Len(threads) /\ threads[th].user_id = u)

\* a request answered 404 names a thread that is not the caller's, calls
\* nothing and appends nothing; an accepted request names a thread of the
\* caller or has created one for the caller; and chat_stream is called
\* only for the caller and the thread of an accepted request
RequestStartsTurnOnlyForOwner ==
    \A t \in Tasks :
        /\ (http'[t] # http[t] /\ http'[t].status = 404)
           => /\ find_thread(http'[t].user_id, http'[t].thread_id) = {}
              /\ UNCHANGED <<pc, turn, msgs, checkpoint, chunks, turns, threads>>
        /\ (pc[t] # "accepted" /\ pc'[t] = "accepted")
           => /\ http'[t].status = 200
              /\ UNCHANGED <<turn, msgs, checkpoint, chunks, turns>>
              /\ find_thread(http'[t].user_id, http'[t].thread_id) # {}
                 \/ (/\ Len(threads') = Len(threads) + 1
                     /\ http'[t].thread_id = Len(threads')
                     /\ threads'[Len(threads')].user_id = http'[t].user_id)
        /\ pc'[t] = "started" /\ pc[t] # "started"
           => /\ pc[t] = "accepted"
              /\ http[t].status = 200
              /\ turn'[t].user = http[t].user_id
              /\ turn'[t].thread = http[t].thread_id

\* C29: /api/chat/stream runs no turn on a thread the caller does not own: a
\* request naming a thread that is not the caller's is answered 404 before
\* chat_stream is called, with no message appended to any checkpoint, and a
\* request naming no thread creates a thread owned by the caller and uses it.
C29_TurnsOnlyOnOwnThreads ==
    []TurnsRunOnOwnThreads /\ [][RequestStartsTurnOnlyForOwner]_vars

C29_Witness ==
    \E t1, t2 \in Tasks :
        /\ t1 # t2
        /\ http[t1].status = 404 /\ http[t1].user_id = 2 /\ http[t1].thread_id = 1
        /\ pc[t1] = "idle"
        /\ http[t2].status = 200 /\ http[t2].user_id = 1 /\ http[t2].thread_id = 1
        /\ Len(threads) = 1 /\ threads[1].user_id = 1 /\ threads[1].present
        /\ pc[t2] = "done"
        /\ checkpoint[CheckpointKey(1, 1)] # <<>>
        /\ checkpoint[CheckpointKey(2, 1)] = <<>>

====
